---- MODULE Spec2Model ----
(***************************************************************************)
(* A model of opentask's platform abstraction layer: the platform registry *)
(* and its factories, the Jira and Linear adapters (every PlatformClient   *)
(* operation with the wire calls it issues and the payloads and filters it *)
(* sends), the status and priority reconciliation functions, the Jira      *)
(* query builder, the canonical task with its mutators, and the matching   *)
(* of platform errors by code.                                             *)
(*                                                                         *)
(* Go strings that pass through strings.ToLower, strings.HasPrefix or      *)
(* strings.TrimSuffix are sequences of one-character strings, so that the  *)
(* conversions are computed and not assumed.  Identifiers that the code    *)
(* only copies and compares are TLA+ strings.                              *)
(***************************************************************************)
EXTENDS Integers, Sequences, FiniteSets, TLC

VARIABLES
    factories,  \* Registry.factories: platform type -> factory
    jira,       \* the Jira server a jira.Client talks to, or Unconfigured
    linear,     \* the Linear server a linear.Client talks to, or Unconfigured
    ret,        \* the last operation: its call, what it returned, its wire calls
    conv,       \* the last pure conversion: function, input, output
    heldTask,   \* the *models.Task a caller holds and mutates, or NoTask
    now,        \* what time.Now() returns
    pending,    \* the wire call an operation is waiting on, or its return
    ctxDone,    \* the context of that operation is cancelled or expired
    ui          \* the interactive task list: its model, the last key, its calls

vars == <<factories, jira, linear, ret, conv, heldTask, now, pending, ctxDone, ui>>

-----------------------------------------------------------------------------
(* Strings as character sequences                                          *)

UpperChars == <<"A","B","C","D","E","F","G","H","I","J","K","L","M",
                "N","O","P","Q","R","S","T","U","V","W","X","Y","Z">>

LowerChars == <<"a","b","c","d","e","f","g","h","i","j","k","l","m",
                "n","o","p","q","r","s","t","u","v","w","x","y","z">>

ToLowerChar(c) ==
    IF \E i \in 1..Len(UpperChars) : UpperChars[i] = c
    THEN LowerChars[CHOOSE i \in 1..Len(UpperChars) : UpperChars[i] = c]
    ELSE c

ToUpperChar(c) ==
    IF \E i \in 1..Len(LowerChars) : LowerChars[i] = c
    THEN UpperChars[CHOOSE i \in 1..Len(LowerChars) : LowerChars[i] = c]
    ELSE c

\* strings.ToLower on ASCII text
ToLower(s) == [i \in 1..Len(s) |-> ToLowerChar(s[i])]

ToUpper(s) == [i \in 1..Len(s) |-> ToUpperChar(s[i])]

\* strings.HasPrefix
HasPrefix(s, p) == Len(s) >= Len(p) /\ SubSeq(s, 1, Len(p)) = p

\* strings.TrimSuffix
TrimSuffix(s, p) ==
    IF Len(s) >= Len(p) /\ SubSeq(s, Len(s) - Len(p) + 1, Len(s)) = p
    THEN SubSeq(s, 1, Len(s) - Len(p))
    ELSE s

-----------------------------------------------------------------------------
(* Canonical statuses (models.TaskStatus)                                  *)

StatusOpen == "open"

StatusInProgress == "in_progress"

StatusDone == "done"

StatusCancelled == "cancelled"

CanonicalStatuses == {StatusOpen, StatusInProgress, StatusDone, StatusCancelled}

\* TaskStatus.IsValid
StatusIsValid(ts) == ts \in CanonicalStatuses

-----------------------------------------------------------------------------
(* Native status vocabulary                                                *)

\* the lower-case words the status conversions compare with, a string being
\* the sequence of its characters
W ==
    [backlog |-> <<"b","a","c","k","l","o","g">>,
     unstarted |-> <<"u","n","s","t","a","r","t","e","d">>,
     started |-> <<"s","t","a","r","t","e","d">>,
     completed |-> <<"c","o","m","p","l","e","t","e","d">>,
     canceled |-> <<"c","a","n","c","e","l","e","d">>,
     cancelled |-> <<"c","a","n","c","e","l","l","e","d">>,
     triage |-> <<"t","r","i","a","g","e">>,
     new |-> <<"n","e","w">>,
     to_do |-> <<"t","o"," ","d","o">>,
     todo |-> <<"t","o","d","o">>,
     indeterminate |-> <<"i","n","d","e","t","e","r","m","i","n","a","t","e">>,
     in_progress |-> <<"i","n"," ","p","r","o","g","r","e","s","s">>,
     done |-> <<"d","o","n","e">>,
     complete |-> <<"c","o","m","p","l","e","t","e">>,
     undefined |-> <<"u","n","d","e","f","i","n","e","d">>,
     open |-> <<"o","p","e","n">>,
     created |-> <<"c","r","e","a","t","e","d">>,
     in_development |-> <<"i","n"," ","d","e","v","e","l","o","p","m","e","n","t">>,
     doing |-> <<"d","o","i","n","g">>,
     closed |-> <<"c","l","o","s","e","d">>,
     resolved |-> <<"r","e","s","o","l","v","e","d">>,
     rejected |-> <<"r","e","j","e","c","t","e","d">>,
     in_review |-> <<"i","n"," ","r","e","v","i","e","w">>]

\* the Jira status names convertToJiraStatus produces, and one it does not
N ==
    [ToDo |-> <<"T","o"," ","D","o">>,
     InProgress |-> <<"I","n"," ","P","r","o","g","r","e","s","s">>,
     Done |-> <<"D","o","n","e">>,
     Cancelled |-> <<"C","a","n","c","e","l","l","e","d">>,
     InReview |-> <<"I","n"," ","R","e","v","i","e","w">>]

-----------------------------------------------------------------------------
(* Status reconciliation                                                   *)

convertLinearStatus(stateType) ==
    CASE stateType \in {W.unstarted, W.backlog}  -> StatusOpen
      [] stateType = W.started                   -> StatusInProgress
      [] stateType = W.completed                 -> StatusDone
      [] stateType \in {W.canceled, W.cancelled} -> StatusCancelled
      [] OTHER                                   -> StatusOpen

\* convertJiraStatus comparing without strings.ToLower
convertJiraStatus_CaseSensitive(statusCategory) ==
    CASE statusCategory \in {W.new, W.to_do, W.todo}           -> StatusOpen
      [] statusCategory \in {W.indeterminate, W.in_progress}   -> StatusInProgress
      [] statusCategory \in {W.done, W.complete}               -> StatusDone
      [] statusCategory \in {W.cancelled, W.canceled}          -> StatusCancelled
      [] OTHER                                                 -> StatusOpen

convertJiraStatus(statusCategory) ==
    LET k == ToLower(statusCategory) IN
    CASE k \in {W.new, W.to_do, W.todo}           -> StatusOpen
      [] k \in {W.indeterminate, W.in_progress}   -> StatusInProgress
      [] k \in {W.done, W.complete}               -> StatusDone
      [] k \in {W.cancelled, W.canceled}          -> StatusCancelled
      [] OTHER                                    -> StatusOpen

convertFromJiraStatus(jiraStatus) ==
    LET k == ToLower(jiraStatus) IN
    CASE k \in {W.to_do, W.open, W.new, W.created}               -> StatusOpen
      [] k \in {W.in_progress, W.in_development, W.doing}        -> StatusInProgress
      [] k \in {W.done, W.closed, W.resolved, W.completed}       -> StatusDone
      [] k \in {W.cancelled, W.canceled, W.rejected}             -> StatusCancelled
      [] OTHER                                                   -> StatusOpen

convertToLinearStateType(status) ==
    CASE status = StatusOpen       -> W.unstarted
      [] status = StatusInProgress -> W.started
      [] status = StatusDone       -> W.completed
      [] status = StatusCancelled  -> W.canceled
      [] OTHER                     -> W.unstarted

\* convertToJiraStatus sending cancelled to the name of the done status
convertToJiraStatus_CancelledAsDone(status) ==
    CASE status = StatusOpen       -> N.ToDo
      [] status = StatusInProgress -> N.InProgress
      [] status = StatusDone       -> N.Done
      [] status = StatusCancelled  -> N.Done
      [] OTHER                     -> N.ToDo

convertToJiraStatus(status) ==
    CASE status = StatusOpen       -> N.ToDo
      [] status = StatusInProgress -> N.InProgress
      [] status = StatusDone       -> N.Done
      [] status = StatusCancelled  -> N.Cancelled
      [] OTHER                     -> N.ToDo

-----------------------------------------------------------------------------
(* Values shared by the components                                         *)

\* a platform no client of this run is connected to
Unconfigured == [configured |-> FALSE]

\* a map with no key
EmptyMap == [k \in {} |-> ""]

NoConv == [fn |-> "none", status |-> "", native |-> <<>>, out |-> ""]

NoRet == [op |-> "none"]

\* no interactive task list is running
NoView == [currentView |-> "none"]

-----------------------------------------------------------------------------
(* Error taxonomy (platforms.PlatformError)                                *)

ErrAuthentication == "authentication_failed"

ErrNotFound == "not_found"

ErrInvalidInput == "invalid_input"

ErrPlatformAPI == "platform_api_error"

ErrSyncConflict == "sync_conflict"

ErrPlatformNotSupported == "platform_not_supported"

ErrInvalidConfig == "invalid_config"

ErrRateLimited == "rate_limited"

ErrPermissionDenied == "permission_denied"

ErrNetworkError == "network_error"

ErrorCodes ==
    {ErrAuthentication, ErrNotFound, ErrInvalidInput, ErrPlatformAPI,
     ErrSyncConflict, ErrPlatformNotSupported, ErrInvalidConfig, ErrRateLimited,
     ErrPermissionDenied, ErrNetworkError}

\* a nil error
NoErr == [type |-> "nil"]

\* fmt.Errorf(text) and fmt.Errorf(text + ": %w", wraps): an error that is no
\* PlatformError
Errorf(text, wraps) == [type |-> "error", text |-> text, wraps |-> wraps]

getErrorMessage(code) ==
    CASE code = ErrAuthentication       -> "Authentication failed"
      [] code = ErrNotFound             -> "Resource not found"
      [] code = ErrInvalidInput         -> "Invalid input provided"
      [] code = ErrPlatformAPI          -> "Platform API error"
      [] code = ErrSyncConflict         -> "Synchronization conflict"
      [] code = ErrPlatformNotSupported -> "Platform not supported"
      [] code = ErrInvalidConfig        -> "Invalid configuration"
      [] code = ErrRateLimited          -> "Rate limit exceeded"
      [] code = ErrPermissionDenied     -> "Permission denied"
      [] code = ErrNetworkError         -> "Network error"
      [] OTHER                          -> "Unknown error"

NewPlatformError(code, platform, taskID, cause) ==
    [type |-> "PlatformError", Code |-> code, Message |-> getErrorMessage(code),
     Platform |-> platform, TaskID |-> taskID, Cause |-> cause]

-----------------------------------------------------------------------------
(* Configuration mappings (map[string]any)                                 *)

\* base URLs of a Jira site, and the prefixes parseConfig accepts
U ==
    [https |-> <<"h","t","t","p","s",":","/","/","j">>,
     https_slash |-> <<"h","t","t","p","s",":","/","/","j","/">>,
     ftp |-> <<"f","t","p",":","/","/","j">>,
     escape |-> <<"h","t","t","p",":","/","/","%">>,
     prefix_http |-> <<"h","t","t","p",":","/","/">>,
     prefix_https |-> <<"h","t","t","p","s",":","/","/">>]

LinearAPIURL ==
    <<"h","t","t","p","s",":","/","/","a","p","i",".","l","i","n","e","a","r",
      ".","a","p","p","/","g","r","a","p","h","q","l">>

\* a key the mapping does not hold
Absent == [t |-> "absent"]

\* a value that is no string (an int, a bool, a nested mapping)
NonString == [t |-> "int"]

StringValue(s) == [t |-> "string", s |-> s]

\* config[k].(string): the comma-ok type assertion
IsString(v) == v.t = "string"

BaseURLValues ==
    {Absent, NonString} \cup
    {StringValue(u) : u \in {<<>>, U.https, U.https_slash, U.ftp, U.escape}}

CredentialValues == {Absent, NonString, StringValue(<<>>), StringValue(<<"s">>)}

Configs == [base_url : BaseURLValues, email : CredentialValues, token : CredentialValues]

\* a nil *Client and a nil PlatformClient
NilClient == [kind |-> "nil"]

\* a PlatformClient interface value that holds a nil *Client
TypedNilClient == [kind |-> "typed-nil"]

\* net/url.Parse as jira.NewClient calls it: a "%" that starts no escape fails
urlParseOK(u) == \A i \in 1..Len(u) : u[i] # "%"

\* jira: parseConfig, the Config and the error it returns
jiraParseConfig(config) ==
    LET base  == IF IsString(config.base_url)
                 THEN TrimSuffix(config.base_url.s, <<"/">>) ELSE <<>>
        email == IF IsString(config.email) THEN config.email.s ELSE <<>>
        token == IF IsString(config.token) THEN config.token.s ELSE <<>>
        cfg   == [BaseURL |-> base, Email |-> email, Token |-> token]
        err   ==
            CASE ~IsString(config.base_url) ->
                     Errorf("base_url is required and must be a string", NoErr)
              [] IsString(config.base_url) /\ ~IsString(config.email) ->
                     Errorf("email is required and must be a string", NoErr)
              [] /\ IsString(config.base_url) /\ IsString(config.email)
                 /\ ~IsString(config.token) ->
                     Errorf("token is required and must be a string", NoErr)
              [] OTHER ->
                     IF base = <<>> THEN Errorf("base_url cannot be empty", NoErr)
                     ELSE IF email = <<>> THEN Errorf("email cannot be empty", NoErr)
                     ELSE IF token = <<>> THEN Errorf("token cannot be empty", NoErr)
                     ELSE IF ~HasPrefix(base, U.prefix_http) /\ ~HasPrefix(base, U.prefix_https)
                          THEN Errorf("base_url must start with http:// or https://", NoErr)
                     ELSE NoErr
    IN [cfg |-> cfg, err |-> err]

\* jira: NewClient that asks for the base URL and the token only
jiraNewClient_NoEmail(cfg) ==
    IF cfg.BaseURL = <<>>
    THEN [client |-> NilClient,
          err |-> NewPlatformError(ErrInvalidConfig, "jira", "",
                                   Errorf("base URL is required", NoErr))]
    ELSE IF cfg.Token = <<>>
    THEN [client |-> NilClient,
          err |-> NewPlatformError(ErrInvalidConfig, "jira", "",
                                   Errorf("email and token are required", NoErr))]
    ELSE IF ~urlParseOK(cfg.BaseURL)
    THEN [client |-> NilClient,
          err |-> NewPlatformError(ErrInvalidConfig, "jira", "",
                      Errorf("failed to create Jira client",
                             Errorf("invalid URL escape", NoErr)))]
    ELSE [client |-> [kind |-> "client", type |-> "jira", baseURL |-> cfg.BaseURL],
          err |-> NoErr]

\* jira: NewClient
jiraNewClient(cfg) ==
    IF cfg.BaseURL = <<>>
    THEN [client |-> NilClient,
          err |-> NewPlatformError(ErrInvalidConfig, "jira", "",
                                   Errorf("base URL is required", NoErr))]
    ELSE IF cfg.Email = <<>> \/ cfg.Token = <<>>
    THEN [client |-> NilClient,
          err |-> NewPlatformError(ErrInvalidConfig, "jira", "",
                                   Errorf("email and token are required", NoErr))]
    ELSE IF ~urlParseOK(cfg.BaseURL)
    THEN [client |-> NilClient,
          err |-> NewPlatformError(ErrInvalidConfig, "jira", "",
                      Errorf("failed to create Jira client",
                             Errorf("invalid URL escape", NoErr)))]
    ELSE [client |-> [kind |-> "client", type |-> "jira", baseURL |-> cfg.BaseURL],
          err |-> NoErr]

\* linear: parseConfig
linearParseConfig(config) ==
    LET token == IF IsString(config.token) THEN config.token.s ELSE <<>>
        base  == IF IsString(config.base_url) THEN config.base_url.s ELSE <<>>
        cfg   == [Token |-> token, BaseURL |-> base]
        err   == IF ~IsString(config.token)
                 THEN Errorf("token is required and must be a string", NoErr)
                 ELSE IF token = <<>> THEN Errorf("token cannot be empty", NoErr)
                 ELSE NoErr
    IN [cfg |-> cfg, err |-> err]

\* linear: NewClient
linearNewClient(cfg) ==
    IF cfg.Token = <<>>
    THEN [client |-> NilClient,
          err |-> NewPlatformError(ErrInvalidConfig, "linear", "",
                                   Errorf("API token is required", NoErr))]
    ELSE [client |-> [kind |-> "client", type |-> "linear",
                      baseURL |-> IF cfg.BaseURL = <<>> THEN LinearAPIURL
                                  ELSE cfg.BaseURL],
          err |-> NoErr]

-----------------------------------------------------------------------------
(* Factories and the registry                                              *)

JiraFactory == [type |-> "jira", name |-> "Jira"]

LinearFactory == [type |-> "linear", name |-> "Linear"]

\* a second value of NewFactory() of the Jira adapter: another pointer, told
\* apart from the first by its name here
JiraFactoryAgain == [type |-> "jira", name |-> "Jira (second instance)"]

Factories == {JiraFactory, JiraFactoryAgain, LinearFactory}

PlatformTypes == {"jira", "linear", "nonexistent-type"}

\* Factory.ValidateConfig of either adapter
FactoryValidateConfig(f, config) ==
    IF f.type = "jira" THEN jiraParseConfig(config).err
    ELSE linearParseConfig(config).err

\* "return NewClient(cfg)" in a function that returns a PlatformClient: a nil
\* *Client becomes an interface value holding a nil pointer
AsPlatformClient(r) ==
    [client |-> IF r.client = NilClient THEN TypedNilClient ELSE r.client,
     err |-> r.err]

\* Factory.Create of either adapter
FactoryCreate(f, config) ==
    LET parsed == IF f.type = "jira" THEN jiraParseConfig(config)
                  ELSE linearParseConfig(config)
    IN IF parsed.err # NoErr
       THEN [client |-> NilClient, err |-> parsed.err]
       ELSE IF f.type = "jira" THEN AsPlatformClient(jiraNewClient(parsed.cfg))
       ELSE AsPlatformClient(linearNewClient(parsed.cfg))

FactoryCall(f, method) == [factory |-> f, method |-> method]

\* Registry.Create that validates after it has created the client
RegistryCreate_CreateFirst(fs, platformType, config) ==
    IF platformType \notin DOMAIN fs
    THEN [client |-> NilClient,
          err |-> NewPlatformError(ErrPlatformNotSupported, platformType, "", NoErr),
          calls |-> <<>>, factories |-> fs]
    ELSE LET factory == fs[platformType]
             verr == FactoryValidateConfig(factory, config)
             made == FactoryCreate(factory, config)
             calls == <<FactoryCall(factory, "Create"),
                        FactoryCall(factory, "ValidateConfig")>>
         IN IF verr # NoErr
            THEN [client |-> NilClient,
                  err |-> NewPlatformError(ErrInvalidConfig, platformType, "", verr),
                  calls |-> calls, factories |-> fs]
            ELSE [client |-> made.client, err |-> made.err, calls |-> calls,
                  factories |-> fs]

\* Registry.Create that falls back to some registered factory for an unknown type
RegistryCreate_Fallback(fs, platformType, config) ==
    LET known == IF platformType \in DOMAIN fs \/ DOMAIN fs = {} THEN platformType
                 ELSE CHOOSE t \in DOMAIN fs : TRUE
    IN IF known \notin DOMAIN fs
       THEN [client |-> NilClient,
             err |-> NewPlatformError(ErrPlatformNotSupported, platformType, "", NoErr),
             calls |-> <<>>, factories |-> fs]
       ELSE LET factory == fs[known]
                verr == FactoryValidateConfig(factory, config)
                made == FactoryCreate(factory, config)
            IN IF verr # NoErr
               THEN [client |-> NilClient,
                     err |-> NewPlatformError(ErrInvalidConfig, platformType, "", verr),
                     calls |-> <<FactoryCall(factory, "ValidateConfig")>>, factories |-> fs]
               ELSE [client |-> made.client, err |-> made.err,
                     calls |-> <<FactoryCall(factory, "ValidateConfig"),
                                 FactoryCall(factory, "Create")>>,
                  factories |-> fs]

\* Registry.Create: what it returns and the factory methods it calls, in order
RegistryCreate(fs, platformType, config) ==
    IF platformType \notin DOMAIN fs
    THEN [client |-> NilClient,
          err |-> NewPlatformError(ErrPlatformNotSupported, platformType, "", NoErr),
          calls |-> <<>>, factories |-> fs]
    ELSE LET factory == fs[platformType]
             verr == FactoryValidateConfig(factory, config)
             made == FactoryCreate(factory, config)
         IN IF verr # NoErr
            THEN [client |-> NilClient,
                  err |-> NewPlatformError(ErrInvalidConfig, platformType, "", verr),
                  calls |-> <<FactoryCall(factory, "ValidateConfig")>>, factories |-> fs]
            ELSE [client |-> made.client, err |-> made.err,
                  calls |-> <<FactoryCall(factory, "ValidateConfig"),
                              FactoryCall(factory, "Create")>>,
                  factories |-> fs]

\* Registry.Register that keeps the factory a type already has
Register_FirstWins(f) ==
    /\ ~jira.configured /\ ~linear.configured
    /\ ret.op = "none"
    /\ factories' = [t \in DOMAIN factories \cup {f.type} |->
                        IF t \in DOMAIN factories THEN factories[t] ELSE f]
    /\ ret' = [op |-> "Registry.Register", factory |-> f]
    /\ UNCHANGED <<jira, linear, conv, heldTask, now, pending, ctxDone, ui>>

\* Registry.Register
Register(f) ==
    /\ ~jira.configured /\ ~linear.configured
    /\ ret.op = "none"
    /\ factories' = [t \in DOMAIN factories \cup {f.type} |->
                        IF t = f.type THEN f ELSE factories[t]]
    /\ ret' = [op |-> "Registry.Register", factory |-> f]
    /\ UNCHANGED <<jira, linear, conv, heldTask, now, pending, ctxDone, ui>>

\* Registry.IsSupported
IsSupported(fs, platformType) == platformType \in DOMAIN fs

\* Registry.GetSupportedPlatforms, as a set: the slice is in map order
GetSupportedPlatforms(fs) == {platformType \in PlatformTypes : platformType \in DOMAIN fs}

\* a call of Registry.Create
Create(platformType, config) ==
    /\ ~jira.configured /\ ~linear.configured
    /\ ret.op = "none"
    /\ LET r == RegistryCreate(factories, platformType, config)
       IN /\ ret' = [op |-> "Registry.Create", platformType |-> platformType,
                     config |-> config, before |-> factories,
                     client |-> r.client, err |-> r.err, calls |-> r.calls]
          /\ factories' = r.factories
    /\ UNCHANGED <<jira, linear, conv, heldTask, now, pending, ctxDone, ui>>

\* the caller has taken the result of the last operation
Consume ==
    /\ ret.op # "none"
    /\ ret' = NoRet
    /\ UNCHANGED <<factories, jira, linear, conv, heldTask, now, pending, ctxDone, ui>>

-----------------------------------------------------------------------------
(* Inputs of the status conversions                                        *)

\* w in lower case, in upper case, and with each single character raised
CaseVariants(w) ==
    {w, ToUpper(w)} \cup
    {[j \in 1..Len(w) |-> IF j = i THEN ToUpperChar(w[j]) ELSE w[j]] : i \in 1..Len(w)}

\* the native status strings tried: every word a conversion has an arm for in
\* its case variants, the Jira names, "triage" and "undefined" (no arm), and ""
StatusInputs ==
    UNION {CaseVariants(W[k]) : k \in DOMAIN W}
        \cup {<<>>, N.ToDo, N.InProgress, N.Done, N.Cancelled, N.InReview}

\* what a caller may pass as a models.TaskStatus: the type is a string
StatusArgs == CanonicalStatuses \cup {"", "blocked"}

\* jira.Status as the adapter reads it: the name and the status category's key
JiraStatus(name, category) == [present |-> TRUE, name |-> name, category |-> category]

\* Fields.Status == nil
NoStatus == [present |-> FALSE]

\* JiraIssue.ToTask, the status it sets
ToTaskStatus(status) ==
    IF status.present THEN convertJiraStatus(status.category) ELSE StatusOpen

ConvertLinear(s) ==
    /\ conv' = [fn |-> "convertLinearStatus", status |-> "", native |-> s,
                out |-> convertLinearStatus(s)]
    /\ UNCHANGED <<factories, jira, linear, ret, heldTask, now, pending, ctxDone, ui>>

ConvertJira(s) ==
    /\ conv' = [fn |-> "convertJiraStatus", status |-> "", native |-> s,
                out |-> convertJiraStatus(s)]
    /\ UNCHANGED <<factories, jira, linear, ret, heldTask, now, pending, ctxDone, ui>>

ConvertFromJira(s) ==
    /\ conv' = [fn |-> "convertFromJiraStatus", status |-> "", native |-> s,
                out |-> convertFromJiraStatus(s)]
    /\ UNCHANGED <<factories, jira, linear, ret, heldTask, now, pending, ctxDone, ui>>

\* ToTask on an issue whose Fields.Status is nil
ConvertNoStatus ==
    /\ conv' = [fn |-> "ToTaskNoStatus", status |-> "", native |-> <<>>,
                out |-> ToTaskStatus(NoStatus)]
    /\ UNCHANGED <<factories, jira, linear, ret, heldTask, now, pending, ctxDone, ui>>

RoundTripLinear(s) ==
    /\ conv' = [fn |-> "linearRoundTrip", status |-> s,
                native |-> convertToLinearStateType(s),
                out |-> convertLinearStatus(convertToLinearStateType(s))]
    /\ UNCHANGED <<factories, jira, linear, ret, heldTask, now, pending, ctxDone, ui>>

RoundTripJiraCategory(s) ==
    /\ conv' = [fn |-> "jiraCategoryRoundTrip", status |-> s,
                native |-> convertToJiraStatus(s),
                out |-> convertJiraStatus(convertToJiraStatus(s))]
    /\ UNCHANGED <<factories, jira, linear, ret, heldTask, now, pending, ctxDone, ui>>

RoundTripJiraName(s) ==
    /\ conv' = [fn |-> "jiraNameRoundTrip", status |-> s,
                native |-> convertToJiraStatus(s),
                out |-> convertFromJiraStatus(convertToJiraStatus(s))]
    /\ UNCHANGED <<factories, jira, linear, ret, heldTask, now, pending, ctxDone, ui>>

InitStatus ==
    /\ factories = EmptyMap
    /\ jira = Unconfigured
    /\ linear = Unconfigured
    /\ ret = NoRet
    /\ conv = NoConv
    /\ heldTask = [present |-> FALSE]
    /\ now = 0
    /\ pending = [state |-> "idle"]
    /\ ctxDone = FALSE
    /\ ui = NoView

NextStatus ==
    \/ \E s \in StatusInputs : ConvertLinear(s)
    \/ \E s \in StatusInputs : ConvertJira(s)
    \/ \E s \in StatusInputs : ConvertFromJira(s)
    \/ ConvertNoStatus
    \/ \E s \in StatusArgs : RoundTripLinear(s)
    \/ \E s \in StatusArgs : RoundTripJiraCategory(s)
    \/ \E s \in StatusArgs : RoundTripJiraName(s)

SpecStatus == InitStatus /\ [][NextStatus]_vars

-----------------------------------------------------------------------------
(* C9, C10: status reconciliation                                          *)

\* the values each forward mapping has an arm for
LinearKnown == {W.unstarted, W.backlog, W.started, W.completed, W.canceled, W.cancelled}

JiraCategoryKnown ==
    {W.new, W.to_do, W.todo, W.indeterminate, W.in_progress, W.done, W.complete,
     W.cancelled, W.canceled}

JiraNameKnown ==
    {W.to_do, W.open, W.new, W.created, W.in_progress, W.in_development, W.doing,
     W.done, W.closed, W.resolved, W.completed, W.cancelled, W.canceled, W.rejected}

\* C9: the forward status mappings are total into the four canonical statuses:
\* Linear backlog/unstarted -> open, started -> in_progress, completed -> done,
\* canceled -> cancelled; Jira category keys new -> open, indeterminate ->
\* in_progress, done -> done, cancelled -> cancelled in any letter case; a value
\* a mapping has no arm for maps to open, and so does an issue with no status.
C9_ForwardStatusTotal ==
    /\ conv.fn \in {"convertLinearStatus", "convertJiraStatus",
                    "convertFromJiraStatus", "ToTaskNoStatus"}
           => conv.out \in CanonicalStatuses
    /\ conv.fn = "convertLinearStatus" =>
           /\ conv.native \in {W.backlog, W.unstarted} => conv.out = StatusOpen
           /\ conv.native = W.started => conv.out = StatusInProgress
           /\ conv.native = W.completed => conv.out = StatusDone
           /\ conv.native = W.canceled => conv.out = StatusCancelled
           /\ conv.native \notin LinearKnown => conv.out = StatusOpen
    /\ conv.fn = "convertJiraStatus" =>
           /\ ToLower(conv.native) = W.new => conv.out = StatusOpen
           /\ ToLower(conv.native) = W.indeterminate => conv.out = StatusInProgress
           /\ ToLower(conv.native) = W.done => conv.out = StatusDone
           /\ ToLower(conv.native) = W.cancelled => conv.out = StatusCancelled
           /\ ToLower(conv.native) \notin JiraCategoryKnown => conv.out = StatusOpen
    /\ conv.fn = "convertFromJiraStatus" =>
           (ToLower(conv.native) \notin JiraNameKnown => conv.out = StatusOpen)
    /\ conv.fn = "ToTaskNoStatus" => conv.out = StatusOpen

\* C9 witness: a category key in upper case was mapped
C9_Witness ==
    /\ conv.fn = "convertJiraStatus"
    /\ conv.native = ToUpper(W.indeterminate)
    /\ conv.out = StatusInProgress

\* C10: for every canonical status s, reverse mapping then forward mapping
\* gives s back, for Linear state types, Jira category keys and Jira status
\* names; so the reverse mappings are injective on the canonical statuses.
C10_StatusRoundTrip ==
    /\ (/\ conv.fn \in {"linearRoundTrip", "jiraCategoryRoundTrip", "jiraNameRoundTrip"}
        /\ conv.status \in CanonicalStatuses)
           => conv.out = conv.status
    /\ \A s, t \in CanonicalStatuses :
           s # t => /\ convertToJiraStatus(s) # convertToJiraStatus(t)
                    /\ convertToLinearStateType(s) # convertToLinearStateType(t)

\* C10 witness: cancelled went to Jira's name and came back from it
C10_Witness ==
    /\ conv.fn = "jiraNameRoundTrip"
    /\ conv.status = StatusCancelled
    /\ conv.native = N.Cancelled
    /\ conv.out = StatusCancelled

-----------------------------------------------------------------------------
(* Priorities (models.Priority) and their reconciliation                   *)

PriorityLow == "low"

PriorityMedium == "medium"

PriorityHigh == "high"

PriorityUrgent == "urgent"

Priorities == {PriorityLow, PriorityMedium, PriorityHigh, PriorityUrgent}

\* Priority.IsValid
PriorityIsValid(p) == p \in Priorities

\* a float64: the number whole, or whole + 0.5
Float(whole, half) == [whole |-> whole, half |-> half]

\* an untyped integer constant converted to float64
Num(n) == Float(n, FALSE)

\* convertLinearPriority reading Linear's 0 ("no priority") as low
convertLinearPriority_ZeroAsLow(priority) ==
    CASE priority = Num(1) -> PriorityUrgent
      [] priority = Num(2) -> PriorityHigh
      [] priority = Num(3) -> PriorityMedium
      [] priority \in {Num(4), Num(0)} -> PriorityLow
      [] OTHER             -> PriorityMedium

convertLinearPriority(priority) ==
    CASE priority = Num(1) -> PriorityUrgent
      [] priority = Num(2) -> PriorityHigh
      [] priority = Num(3) -> PriorityMedium
      [] priority = Num(4) -> PriorityLow
      [] OTHER             -> PriorityMedium

convertToLinearPriority(priority) ==
    CASE priority = PriorityUrgent -> Num(1)
      [] priority = PriorityHigh   -> Num(2)
      [] priority = PriorityMedium -> Num(3)
      [] priority = PriorityLow    -> Num(4)
      [] OTHER                     -> Num(3)

\* the lower-case words convertJiraPriority compares with, and one it has no
\* arm for
P ==
    [highest |-> <<"h","i","g","h","e","s","t">>,
     critical |-> <<"c","r","i","t","i","c","a","l">>,
     blocker |-> <<"b","l","o","c","k","e","r">>,
     high |-> <<"h","i","g","h">>,
     major |-> <<"m","a","j","o","r">>,
     medium |-> <<"m","e","d","i","u","m">>,
     normal |-> <<"n","o","r","m","a","l">>,
     low |-> <<"l","o","w">>,
     minor |-> <<"m","i","n","o","r">>,
     trivial |-> <<"t","r","i","v","i","a","l">>,
     lowest |-> <<"l","o","w","e","s","t">>,
     urgent |-> <<"u","r","g","e","n","t">>]

\* the Jira priority names convertToJiraPriority produces
PN ==
    [Highest |-> <<"H","i","g","h","e","s","t">>,
     High |-> <<"H","i","g","h">>,
     Medium |-> <<"M","e","d","i","u","m">>,
     Low |-> <<"L","o","w">>]

\* convertJiraPriority comparing without strings.ToLower
convertJiraPriority_CaseSensitive(priority) ==
    CASE priority \in {P.highest, P.critical, P.blocker}        -> PriorityUrgent
      [] priority \in {P.high, P.major}                         -> PriorityHigh
      [] priority \in {P.medium, P.normal}                      -> PriorityMedium
      [] priority \in {P.low, P.minor, P.trivial, P.lowest}     -> PriorityLow
      [] OTHER                                                  -> PriorityMedium

convertJiraPriority(priority) ==
    LET k == ToLower(priority) IN
    CASE k \in {P.highest, P.critical, P.blocker}        -> PriorityUrgent
      [] k \in {P.high, P.major}                         -> PriorityHigh
      [] k \in {P.medium, P.normal}                      -> PriorityMedium
      [] k \in {P.low, P.minor, P.trivial, P.lowest}     -> PriorityLow
      [] OTHER                                           -> PriorityMedium

convertToJiraPriority(priority) ==
    CASE priority = PriorityUrgent -> PN.Highest
      [] priority = PriorityHigh   -> PN.High
      [] priority = PriorityMedium -> PN.Medium
      [] priority = PriorityLow    -> PN.Low
      [] OTHER                     -> PN.Medium

\* jira.Priority as the adapter reads it: its name
JiraPriority(name) == [present |-> TRUE, name |-> name]

\* Fields.Priority == nil
NoPriority == [present |-> FALSE]

\* JiraIssue.ToTask, the priority it sets
ToTaskPriority(priority) ==
    IF priority.present THEN convertJiraPriority(priority.name) ELSE PriorityMedium

-----------------------------------------------------------------------------
(* Inputs of the priority conversions                                      *)

\* the numbers Linear may report: -1 .. 5 and the halves between them
LinearPriorityInputs == {Float(n, h) : n \in -1..5, h \in BOOLEAN}

\* the Jira priority names tried: every word of P in its case variants, and ""
JiraPriorityInputs == UNION {CaseVariants(P[k]) : k \in DOMAIN P} \cup {<<>>}

\* what a caller may pass as a models.Priority: the type is a string
PriorityArgs == Priorities \cup {"", "critical"}

ConvertLinearPriority(n) ==
    /\ conv' = [fn |-> "convertLinearPriority", status |-> "", native |-> n,
                out |-> convertLinearPriority(n)]
    /\ UNCHANGED <<factories, jira, linear, ret, heldTask, now, pending, ctxDone, ui>>

ConvertJiraPriority(s) ==
    /\ conv' = [fn |-> "convertJiraPriority", status |-> "", native |-> s,
                out |-> convertJiraPriority(s)]
    /\ UNCHANGED <<factories, jira, linear, ret, heldTask, now, pending, ctxDone, ui>>

\* ToTask on an issue whose Fields.Priority is nil
ConvertNoPriority ==
    /\ conv' = [fn |-> "ToTaskNoPriority", status |-> "", native |-> <<>>,
                out |-> ToTaskPriority(NoPriority)]
    /\ UNCHANGED <<factories, jira, linear, ret, heldTask, now, pending, ctxDone, ui>>

\* canonical -> Linear number -> canonical
RoundTripLinearPriority(p) ==
    /\ conv' = [fn |-> "linearPriorityRoundTrip", status |-> p,
                native |-> convertToLinearPriority(p),
                out |-> convertLinearPriority(convertToLinearPriority(p))]
    /\ UNCHANGED <<factories, jira, linear, ret, heldTask, now, pending, ctxDone, ui>>

\* Linear number -> canonical -> Linear number
RoundTripLinearNumber(n) ==
    /\ conv' = [fn |-> "linearNumberRoundTrip", status |-> convertLinearPriority(n),
                native |-> n,
                out |-> convertToLinearPriority(convertLinearPriority(n))]
    /\ UNCHANGED <<factories, jira, linear, ret, heldTask, now, pending, ctxDone, ui>>

\* canonical -> Jira name -> canonical
RoundTripJiraPriority(p) ==
    /\ conv' = [fn |-> "jiraPriorityRoundTrip", status |-> p,
                native |-> convertToJiraPriority(p),
                out |-> convertJiraPriority(convertToJiraPriority(p))]
    /\ UNCHANGED <<factories, jira, linear, ret, heldTask, now, pending, ctxDone, ui>>

NextPriority ==
    \/ \E n \in LinearPriorityInputs : ConvertLinearPriority(n)
    \/ \E s \in JiraPriorityInputs : ConvertJiraPriority(s)
    \/ ConvertNoPriority
    \/ \E p \in PriorityArgs : RoundTripLinearPriority(p)
    \/ \E n \in LinearPriorityInputs : RoundTripLinearNumber(n)
    \/ \E p \in PriorityArgs : RoundTripJiraPriority(p)

SpecPriority == InitStatus /\ [][NextPriority]_vars

-----------------------------------------------------------------------------
(* C11, C12: priority reconciliation                                       *)

\* C11: convertLinearPriority maps 1 to urgent, 2 to high, 3 to medium, 4 to
\* low and every other number, 0 included, to medium; convertToLinearPriority
\* is its inverse: each canonical priority comes back from its number, and each
\* of the numbers 1..4 comes back from its priority.
C11_LinearPriority ==
    /\ conv.fn = "convertLinearPriority" =>
           /\ conv.native = Num(1) => conv.out = PriorityUrgent
           /\ conv.native = Num(2) => conv.out = PriorityHigh
           /\ conv.native = Num(3) => conv.out = PriorityMedium
           /\ conv.native = Num(4) => conv.out = PriorityLow
           /\ conv.native \notin {Num(1), Num(2), Num(3), Num(4)}
                  => conv.out = PriorityMedium
    /\ conv.fn = "linearPriorityRoundTrip" /\ conv.status \in Priorities
           => conv.out = conv.status
    /\ conv.fn = "linearNumberRoundTrip" /\ conv.native \in {Num(n) : n \in 1..4}
           => conv.out = conv.native

\* C11 witness: the number 0 was converted
C11_Witness ==
    /\ conv.fn = "convertLinearPriority"
    /\ conv.native = Num(0)

\* the names convertJiraPriority has an arm for
JiraPriorityKnown ==
    {P.highest, P.critical, P.blocker, P.high, P.major, P.medium, P.normal,
     P.low, P.minor, P.trivial, P.lowest}

\* C12: convertJiraPriority maps Highest/Critical/Blocker to urgent, High/Major
\* to high, Medium/Normal to medium and Low/Minor/Trivial/Lowest to low in any
\* letter case; every other name, and an issue with no priority, maps to medium;
\* convertToJiraPriority(p) is mapped back to p for each canonical priority p.
C12_JiraPriority ==
    /\ conv.fn = "convertJiraPriority" =>
           LET k == ToLower(conv.native) IN
           /\ k \in {P.highest, P.critical, P.blocker} => conv.out = PriorityUrgent
           /\ k \in {P.high, P.major} => conv.out = PriorityHigh
           /\ k \in {P.medium, P.normal} => conv.out = PriorityMedium
           /\ k \in {P.low, P.minor, P.trivial, P.lowest} => conv.out = PriorityLow
           /\ k \notin JiraPriorityKnown => conv.out = PriorityMedium
    /\ conv.fn = "ToTaskNoPriority" => conv.out = PriorityMedium
    /\ conv.fn = "jiraPriorityRoundTrip" /\ conv.status \in Priorities
           => conv.out = conv.status

\* C12 witness: a name in upper case was mapped to urgent
C12_Witness ==
    /\ conv.fn = "convertJiraPriority"
    /\ conv.native = ToUpper(P.blocker)
    /\ conv.out = PriorityUrgent

-----------------------------------------------------------------------------
(* Filters (models.TaskFilter) and the Jira query builder                  *)

\* a nil *TaskStatus or *Priority
NilPtr == [present |-> FALSE]

\* a pointer to v
Ptr(v) == [present |-> TRUE, value |-> v]

\* a nil *models.TaskFilter
NilFilter == [nil |-> TRUE]

TaskFilter(status, priority, assignee, projectID, labels, query) ==
    [nil |-> FALSE, Status |-> status, Priority |-> priority, Assignee |-> assignee,
     ProjectID |-> projectID, Labels |-> labels, Query |-> query]

\* the Go string whose characters are s
RECURSIVE Str(_)
Str(s) == IF s = <<>> THEN "" ELSE s[1] \o Str(Tail(s))

\* strings.Join
RECURSIVE Join(_, _)
Join(elems, sep) ==
    CASE Len(elems) = 0 -> ""
      [] Len(elems) = 1 -> elems[1]
      [] OTHER          -> elems[1] \o sep \o Join(Tail(elems), sep)

\* fmt.Sprintf("<field> <op> \"%s\"", value)
Sprintf(field, op, value) == field \o " " \o op \o " \"" \o value \o "\""

\* buildJQLQuery's assignee condition with "me" quoted like any other name
jqlAssignee_Quoted(assignee) == Sprintf("assignee", "=", assignee)

\* buildJQLQuery: the condition of a non-empty filter.Assignee
jqlAssignee(assignee) ==
    IF assignee = "me"
    THEN "assignee = currentUser()"
    ELSE Sprintf("assignee", "=", assignee)

buildJQLQuery(filter) ==
    IF filter.nil
    THEN "ORDER BY created DESC"
    ELSE LET status == IF filter.Status.present
                       THEN <<Sprintf("status", "=",
                                      Str(convertToJiraStatus(filter.Status.value)))>>
                       ELSE <<>>
             assignee == IF filter.Assignee # ""
                         THEN <<jqlAssignee(filter.Assignee)>>
                         ELSE <<>>
             project == IF filter.ProjectID # ""
                        THEN <<Sprintf("project", "=", filter.ProjectID)>>
                        ELSE <<>>
             labelConditions == [i \in 1..Len(filter.Labels) |->
                                     Sprintf("labels", "=", filter.Labels[i])]
             labels == IF Len(filter.Labels) > 0
                       THEN <<"(" \o Join(labelConditions, " AND ") \o ")">>
                       ELSE <<>>
             text == IF filter.Query # ""
                     THEN <<Sprintf("text", "~", filter.Query)>>
                     ELSE <<>>
             conditions == status \o assignee \o project \o labels \o text
             query == Join(conditions, " AND ")
         IN  IF query = ""
             THEN "ORDER BY created DESC"
             ELSE query \o " ORDER BY created DESC"

\* the filters tried: nil, and every combination of a status pointer, a
\* priority pointer, an assignee, a project, up to two labels and a query
Filters ==
    {NilFilter} \cup
    {TaskFilter(s, p, a, pr, l, q) :
        s \in {NilPtr} \cup {Ptr(v) : v \in StatusArgs},
        p \in {NilPtr, Ptr(PriorityHigh)},
        a \in {"", "me", "john.doe"},
        pr \in {"", "TEST"},
        l \in {<<>>, <<"bug">>, <<"bug", "urgent">>, <<"urgent", "bug">>},
        q \in {"", "test query"}}

BuildJQLQuery(filter) ==
    /\ conv' = [fn |-> "buildJQLQuery", status |-> "", native |-> filter,
                out |-> buildJQLQuery(filter)]
    /\ UNCHANGED <<factories, jira, linear, ret, heldTask, now, pending, ctxDone, ui>>

NextJQL == \E filter \in Filters : BuildJQLQuery(filter)

SpecJQL == InitStatus /\ [][NextJQL]_vars

-----------------------------------------------------------------------------
(* C13: the JQL built from a filter                                        *)

\* the predicate the claim gives field i of filter f: 1 status, 2 assignee,
\* 3 project, 4 labels, 5 query
JQLPredicate(f, i) ==
    CASE i = 1 -> "status = \"" \o Str(convertToJiraStatus(f.Status.value)) \o "\""
      [] i = 2 -> IF f.Assignee = "me" THEN "assignee = currentUser()"
                  ELSE "assignee = \"" \o f.Assignee \o "\""
      [] i = 3 -> "project = \"" \o f.ProjectID \o "\""
      [] i = 4 -> "(" \o Join([k \in 1..Len(f.Labels) |->
                                   "labels = \"" \o f.Labels[k] \o "\""], " AND ") \o ")"
      [] i = 5 -> "text ~ \"" \o f.Query \o "\""

\* whether field i of filter f is present
JQLPresent(f, i) ==
    CASE i = 1 -> f.Status.present
      [] i = 2 -> f.Assignee # ""
      [] i = 3 -> f.ProjectID # ""
      [] i = 4 -> f.Labels # <<>>
      [] i = 5 -> f.Query # ""

\* C13: buildJQLQuery emits one predicate for exactly each present field among
\* status, assignee, project, labels and query, in that order, joined by
\* " AND " and followed by " ORDER BY created DESC": the status by its Jira
\* name, the assignee "me" as currentUser() and any other quoted, the labels as
\* one parenthesised AND-group in input order; a nil filter, or one with none
\* of these fields, gives exactly "ORDER BY created DESC".
C13_JQLPredicates ==
    conv.fn = "buildJQLQuery" =>
        LET f == conv.native
            present == IF f.nil THEN <<>>
                       ELSE SelectSeq(<<1, 2, 3, 4, 5>>, LAMBDA i : JQLPresent(f, i))
            predicates == [k \in 1..Len(present) |-> JQLPredicate(f, present[k])]
        IN  IF present = <<>>
            THEN conv.out = "ORDER BY created DESC"
            ELSE conv.out = Join(predicates, " AND ") \o " ORDER BY created DESC"

\* C13 witness: the combined filter of the tests, with "me" as the assignee
C13_Witness ==
    /\ conv.fn = "buildJQLQuery"
    /\ ~conv.native.nil
    /\ conv.native.Assignee = "me"
    /\ conv.native.Labels = <<"bug", "urgent">>
    /\ conv.out = "status = \"In Progress\" AND assignee = currentUser() AND project = \"TEST\" AND (labels = \"bug\" AND labels = \"urgent\") AND text ~ \"test query\" ORDER BY created DESC"

-----------------------------------------------------------------------------
(* Tasks as the callers pass them and the adapters return them             *)

\* a metadata value that is a string holding an identifier
IdValue(id) == [t |-> "string", id |-> id]

\* a nil *models.User
NoUser == [present |-> FALSE]

\* a *models.User
User(id, metadata) == [present |-> TRUE, ID |-> id, Metadata |-> metadata]

\* a nil *models.Task
NoTask == [present |-> FALSE]

\* Task.GetMetadata: the value and whether the key exists
GetMetadata(task, key) ==
    IF key \in DOMAIN task.Metadata
    THEN [value |-> task.Metadata[key], ok |-> TRUE]
    ELSE [value |-> Absent, ok |-> FALSE]

\* the largest number of wire calls one operation can issue
MaxWire == 5

NoFault == [at |-> 0, kind |-> "none"]

\* one wire call and its answer: ok is the call returning no error, status
\* the HTTP status of the answer (0: no answer)
WireCall(call, target, reply) ==
    [call |-> call, target |-> target, ok |-> ~reply.err, status |-> reply.status]

\* what an adapter operation did: the value and error it returned, the wire
\* calls it issued in order, the platform afterwards, whether it panicked
Outcome(value, err, wire, server, panic) ==
    [value |-> value, err |-> err, wire |-> wire, server |-> server, panic |-> panic]

-----------------------------------------------------------------------------
(* The Jira server behind go-jira                                           *)

IssueID == "12345"

IssueKey == "TEST-123"

\* an identifier no issue has
UnknownID == "99999"

UnknownKey == "NOPE-9"

ProjectKey == "TEST"

\* the statuses of the server's workflow: name and status category key
JS ==
    [ToDo |-> JiraStatus(N.ToDo, W.new),
     InProgress |-> JiraStatus(N.InProgress, W.indeterminate),
     InReview |-> JiraStatus(N.InReview, W.indeterminate),
     Done |-> JiraStatus(N.Done, W.done),
     Cancelled |-> JiraStatus(N.Cancelled, W.done)]

Transition(id, to) == [ID |-> id, To |-> to]

\* the transitions the server offers for an issue in status st
TransitionsOf(workflow, st) ==
    IF workflow = "open"
    THEN SelectSeq(<<Transition("11", JS.ToDo), Transition("21", JS.InProgress),
                     Transition("31", JS.Done), Transition("41", JS.Cancelled)>>,
                   LAMBDA t : t.To # st)
    ELSE CASE st = JS.ToDo       -> <<Transition("21", JS.InProgress)>>
           [] st = JS.InProgress -> <<Transition("51", JS.InReview),
                                      Transition("11", JS.ToDo)>>
           [] st = JS.InReview   -> <<Transition("31", JS.Done),
                                      Transition("32", JS.Done),
                                      Transition("21", JS.InProgress)>>
           [] OTHER              -> <<>>

JiraServers ==
    [configured : {TRUE}, exists : BOOLEAN, status : {JS.ToDo, JS.InProgress, JS.InReview, JS.Done, JS.Cancelled},
     workflow : {"open", "review"}, summary : {"t0"}]

\* the server finds the issue by its id or by its key
JiraResolves(srv, id) == srv.exists /\ id \in {IssueID, IssueKey}

\* a jira.Issue as decoded from a response
JiraIssue(id, key, summary, status) ==
    [ID |-> id, Key |-> key, hasFields |-> TRUE, Summary |-> summary, Status |-> status]

\* an answer to a wire call, as go-jira hands it to the adapter: err is the
\* error being non-nil, status the HTTP status (0: resp is nil)
Reply(err, status) == [err |-> err, status |-> status]

ReplyOK == Reply(FALSE, 200)

Reply404 == Reply(TRUE, 404)

FaultReply(kind) == IF kind = "neterr" THEN Reply(TRUE, 0) ELSE Reply(TRUE, 500)

\* the transport's error of a failed call
TransportError(reply) ==
    IF reply.status = 0 THEN Errorf("connection failed", NoErr)
    ELSE Errorf("request failed with HTTP status", NoErr)

\* the n-th wire call of an operation: the fault if it hits this call, the
\* platform's own answer otherwise
Wire(fault, n, natural) == IF fault.at = n THEN FaultReply(fault.kind) ELSE natural

\* resp != nil && resp.StatusCode == http.StatusNotFound
IsNotFound(reply) == reply.status # 0 /\ reply.status = 404

\* JiraIssue.ToTask
JiraToTask(issue) ==
    [present |-> TRUE, ID |-> issue.Key, Title |-> issue.Summary,
     Status |-> ToTaskStatus(issue.Status), Platform |-> "jira",
     Metadata |-> [k \in {"jira_id"} |-> IdValue(issue.ID)]]

\* the issue as the server returns it
JiraIssueOf(srv) == JiraIssue(IssueID, IssueKey, srv.summary, srv.status)

\* a list value ([]*models.Task, []*models.Project, []*models.User)
ListOf(items) == [present |-> TRUE, items |-> items]

\* a nil slice with an error
NoList == [present |-> FALSE]

JiraProject == [present |-> TRUE, ID |-> "10000", Key |-> ProjectKey, Platform |-> "jira"]

JiraUser == [present |-> TRUE, ID |-> "acct-1", Platform |-> "jira"]

\* jira: Client.CreateTask that leaves the project check to the server
jiraMissingProject_Unchecked(task) == FALSE

\* jira: Client.CreateTask, the check that the task names a project
jiraMissingProject(task) == task.ProjectID = ""

\* jira: Client.CreateTask with the labels always in the issue fields
jiraCreateFields_AlwaysLabels(task) ==
    ("summary" :> task.Title) @@ ("issuetype" :> "Task")
        @@ ("project" :> task.ProjectID) @@ ("labels" :> task.Labels)

\* jira: Client.CreateTask, the issue fields it builds: a field of the map is
\* a field of jira.IssueFields the code assigns
jiraCreateFields(task) ==
    LET accountID == IF task.Assignee.present
                     THEN GetMetadata(task.Assignee, "jira_account_id")
                     ELSE [value |-> Absent, ok |-> FALSE]
    IN  ("summary" :> task.Title) @@ ("issuetype" :> "Task")
        @@ (IF task.ProjectID # "" THEN "project" :> task.ProjectID ELSE EmptyMap)
        @@ (IF task.Priority # ""
            THEN "priority" :> convertToJiraPriority(task.Priority) ELSE EmptyMap)
        @@ (IF accountID.ok /\ IsString(accountID.value)
            THEN "assignee" :> accountID.value.id ELSE EmptyMap)
        @@ (IF Len(task.Labels) > 0 THEN "labels" :> task.Labels ELSE EmptyMap)

\* jira: Client.UpdateTask, the issue fields it builds
jiraUpdateFields(task) ==
    ("summary" :> task.Title)
        @@ (IF task.Priority # ""
            THEN "priority" :> convertToJiraPriority(task.Priority) ELSE EmptyMap)
        @@ (IF Len(task.Labels) > 0 THEN "labels" :> task.Labels ELSE EmptyMap)

\* jira: Client.CreateTask; full is whether the server's answer carries the
\* issue's fields (Jira's own answer to a create carries id, key and self only)
jiraCreateTask(srv, task, fault, full) ==
    IF jiraMissingProject(task)
    THEN Outcome(NoTask,
                 NewPlatformError(ErrInvalidInput, "jira", "",
                     Errorf("project ID is required for Jira issues", NoErr)),
                 <<>>, srv, FALSE)
    ELSE LET r == Wire(fault, 1, IF task.ProjectID = ProjectKey THEN ReplyOK
                                 ELSE Reply(TRUE, 400))
             w == <<[call |-> "Issue.Create", target |-> task.ProjectID,
                     ok |-> ~r.err, status |-> r.status,
                     fields |-> jiraCreateFields(task)]>>
             made == IF srv.exists
                     THEN JiraIssue("12346", "TEST-124", task.Title, JS.ToDo)
                     ELSE JiraIssue(IssueID, IssueKey, task.Title, JS.ToDo)
             after == IF srv.exists THEN srv
                      ELSE [srv EXCEPT !.exists = TRUE, !.summary = task.Title,
                                       !.status = JS.ToDo]
         IN IF r.err
            THEN Outcome(NoTask,
                         NewPlatformError(ErrPlatformAPI, "jira", "",
                             Errorf("failed to create issue", TransportError(r))),
                         w, srv, FALSE)
            ELSE IF r.status >= 400
            THEN Outcome(NoTask,
                         NewPlatformError(ErrPlatformAPI, "jira", "",
                             Errorf("create issue failed with status", NoErr)),
                         w, srv, FALSE)
            ELSE IF full THEN Outcome(JiraToTask(made), NoErr, w, after, FALSE)
            ELSE Outcome(NoTask, NoErr, w, after, TRUE)

\* jira: Client.GetTask mapping every failure to platform_api_error
jiraGetTask_No404(srv, id, fault) ==
    LET r == Wire(fault, 1, IF JiraResolves(srv, id) THEN ReplyOK ELSE Reply404)
        w == <<WireCall("Issue.Get", id, r)>>
    IN IF r.err
       THEN Outcome(NoTask,
                    NewPlatformError(ErrPlatformAPI, "jira", id,
                        Errorf("failed to get issue", TransportError(r))),
                    w, srv, FALSE)
       ELSE Outcome(JiraToTask(JiraIssueOf(srv)), NoErr, w, srv, FALSE)

\* jira: Client.GetTask
jiraGetTask(srv, id, fault) ==
    LET r == Wire(fault, 1, IF JiraResolves(srv, id) THEN ReplyOK ELSE Reply404)
        w == <<WireCall("Issue.Get", id, r)>>
    IN IF r.err
       THEN IF IsNotFound(r)
            THEN Outcome(NoTask,
                         NewPlatformError(ErrNotFound, "jira", id,
                             Errorf("issue not found", NoErr)),
                         w, srv, FALSE)
            ELSE Outcome(NoTask,
                         NewPlatformError(ErrPlatformAPI, "jira", id,
                             Errorf("failed to get issue", TransportError(r))),
                         w, srv, FALSE)
       ELSE Outcome(JiraToTask(JiraIssueOf(srv)), NoErr, w, srv, FALSE)

\* jira: Client.DeleteTask
jiraDeleteTask(srv, id, fault) ==
    LET r == Wire(fault, 1, IF JiraResolves(srv, id) THEN ReplyOK ELSE Reply404)
        w == <<WireCall("Issue.Delete", id, r)>>
    IN IF r.err
       THEN IF IsNotFound(r)
            THEN Outcome(NoTask,
                         NewPlatformError(ErrNotFound, "jira", id,
                             Errorf("issue not found", NoErr)),
                         w, srv, FALSE)
            ELSE Outcome(NoTask,
                         NewPlatformError(ErrPlatformAPI, "jira", id,
                             Errorf("failed to delete issue", TransportError(r))),
                         w, srv, FALSE)
       ELSE Outcome(NoTask, NoErr, w, [srv EXCEPT !.exists = FALSE], FALSE)

\* the first transition of a list whose target has the name wanted, or none
FindTransition(transitions, name) ==
    LET hits == SelectSeq(transitions, LAMBDA t : t.To.name = name)
    IN IF hits = <<>> THEN [found |-> FALSE] ELSE [found |-> TRUE, transition |-> hits[1]]

\* jira: Client.transitionIssue against a server that moves the issue even
\* though it answers the transition request with a failure
transitionIssue_MovedAnyway(srv, issueID, targetStatus, fault, n) ==
    LET r1 == Wire(fault, n, IF JiraResolves(srv, issueID) THEN ReplyOK ELSE Reply404)
        w1 == <<WireCall("Issue.GetTransitions", issueID, r1)>>
        hit == FindTransition(TransitionsOf(srv.workflow, srv.status),
                              convertToJiraStatus(targetStatus))
    IN IF r1.err
       THEN [err |-> NewPlatformError(ErrPlatformAPI, "jira", issueID,
                         Errorf("failed to get transitions", TransportError(r1))),
             wire |-> w1, server |-> srv]
       ELSE IF ~hit.found
       THEN [err |-> NewPlatformError(ErrPlatformAPI, "jira", issueID,
                         Errorf("no transition available to status", NoErr)),
             wire |-> w1, server |-> srv]
       ELSE LET r2 == Wire(fault, n + 1, ReplyOK)
            IN [err |-> IF r2.err
                        THEN NewPlatformError(ErrPlatformAPI, "jira", issueID,
                                 Errorf("failed to transition issue", TransportError(r2)))
                        ELSE NoErr,
                wire |-> w1 \o <<[call |-> "Issue.DoTransition", target |-> issueID,
                                  ok |-> ~r2.err, status |-> r2.status,
                                  transition |-> hit.transition]>>,
                server |-> [srv EXCEPT !.status = hit.transition.To]]

\* jira: Client.transitionIssue that asks for the transitions a second time
\* when the first request failed
transitionIssue_Retry(srv, issueID, targetStatus, fault, n) ==
    LET r1 == Wire(fault, n, IF JiraResolves(srv, issueID) THEN ReplyOK ELSE Reply404)
        w1 == <<WireCall("Issue.GetTransitions", issueID, r1)>>
        hit == FindTransition(TransitionsOf(srv.workflow, srv.status),
                              convertToJiraStatus(targetStatus))
    IN IF r1.err
       THEN [err |-> NewPlatformError(ErrPlatformAPI, "jira", issueID,
                         Errorf("failed to get transitions", TransportError(r1))),
             wire |-> w1 \o w1, server |-> srv]
       ELSE IF ~hit.found
       THEN [err |-> NewPlatformError(ErrPlatformAPI, "jira", issueID,
                         Errorf("no transition available to status", NoErr)),
             wire |-> w1, server |-> srv]
       ELSE [err |-> NoErr,
             wire |-> w1 \o <<[call |-> "Issue.DoTransition", target |-> issueID,
                               ok |-> TRUE, status |-> 200,
                               transition |-> hit.transition]>>,
             server |-> [srv EXCEPT !.status = hit.transition.To]]

\* jira: Client.transitionIssue, its calls numbered from n; the error it
\* returns, its wire calls and the server afterwards
transitionIssue(srv, issueID, targetStatus, fault, n) ==
    LET r1 == Wire(fault, n, IF JiraResolves(srv, issueID) THEN ReplyOK ELSE Reply404)
        w1 == <<WireCall("Issue.GetTransitions", issueID, r1)>>
        targetJiraStatus == convertToJiraStatus(targetStatus)
        hit == FindTransition(TransitionsOf(srv.workflow, srv.status), targetJiraStatus)
    IN IF r1.err
       THEN [err |-> NewPlatformError(ErrPlatformAPI, "jira", issueID,
                         Errorf("failed to get transitions", TransportError(r1))),
             wire |-> w1, server |-> srv]
       ELSE IF ~hit.found
       THEN [err |-> NewPlatformError(ErrPlatformAPI, "jira", issueID,
                         Errorf("no transition available to status", NoErr)),
             wire |-> w1, server |-> srv]
       ELSE LET r2 == Wire(fault, n + 1, ReplyOK)
                w2 == w1 \o <<[call |-> "Issue.DoTransition", target |-> issueID,
                               ok |-> ~r2.err, status |-> r2.status,
                               transition |-> hit.transition]>>
            IN IF r2.err
               THEN [err |-> NewPlatformError(ErrPlatformAPI, "jira", issueID,
                                 Errorf("failed to transition issue", TransportError(r2))),
                     wire |-> w2, server |-> srv]
               ELSE [err |-> NoErr, wire |-> w2,
                     server |-> [srv EXCEPT !.status = hit.transition.To]]

\* jira: Client.UpdateTask that takes the task's ID when jira_id is no string
jiraResolveID_Lenient(task) ==
    LET m == GetMetadata(task, "jira_id")
    IN IF m.ok /\ IsString(m.value) THEN [ok |-> TRUE, id |-> m.value.id]
       ELSE [ok |-> TRUE, id |-> task.ID]

\* jira: Client.UpdateTask, the identifier it addresses the issue by: the
\* jira_id of the metadata, the task's ID when the key is absent; not ok when
\* the value is no string
jiraResolveID(task) ==
    LET m == GetMetadata(task, "jira_id")
        jiraID == IF m.ok THEN m.value ELSE IdValue(task.ID)
    IN IF IsString(jiraID) THEN [ok |-> TRUE, id |-> jiraID.id]
       ELSE [ok |-> FALSE]

\* jira: Client.UpdateTask that never runs the transition step
jiraNeedsTransition_Never(srv, task) == FALSE

\* jira: Client.UpdateTask, whether it runs the transition step
jiraNeedsTransition(srv, task) ==
    convertFromJiraStatus(srv.status.name) # task.Status

\* the issue Issue.Update hands back: a copy of the issue it was given
JiraUpdateEcho(key, fields) ==
    [ID |-> "", Key |-> key, hasFields |-> TRUE, Summary |-> fields.summary,
     Status |-> NoStatus]

\* jira: the failure of the first Issue.Get of UpdateTask, handed back as it is
jiraUpdateGetError_Raw(task, reply) == TransportError(reply)

\* jira: the failure of the first Issue.Get of UpdateTask
jiraUpdateGetError(task, reply) ==
    NewPlatformError(ErrPlatformAPI, "jira", task.ID,
        Errorf("failed to get current issue", TransportError(reply)))

\* jira: Client.UpdateTask; echo is whether Issue.Update hands an issue back
jiraUpdateTask(srv, task, fault, echo) ==
    LET rid == jiraResolveID(task) IN
    IF ~rid.ok
    THEN Outcome(NoTask,
                 NewPlatformError(ErrInvalidInput, "jira", task.ID,
                     Errorf("invalid jira_id in task metadata", NoErr)),
                 <<>>, srv, FALSE)
    ELSE
    LET r1 == Wire(fault, 1, IF JiraResolves(srv, rid.id) THEN ReplyOK ELSE Reply404)
        w1 == <<WireCall("Issue.Get", rid.id, r1)>>
    IN
    IF r1.err
    THEN Outcome(NoTask, jiraUpdateGetError(task, r1), w1, srv, FALSE)
    ELSE
    LET tr == IF jiraNeedsTransition(srv, task)
              THEN transitionIssue(srv, rid.id, task.Status, fault, 2)
              ELSE [err |-> NoErr, wire |-> <<>>, server |-> srv]
        w2 == w1 \o tr.wire
    IN
    IF tr.err # NoErr
    THEN Outcome(NoTask, tr.err, w2, tr.server, FALSE)
    ELSE
    LET fields == jiraUpdateFields(task)
        r3 == Wire(fault, Len(w2) + 1, ReplyOK)
        w3 == w2 \o <<[call |-> "Issue.Update", target |-> rid.id, ok |-> ~r3.err,
                       status |-> r3.status, fields |-> fields]>>
        s3 == [tr.server EXCEPT !.summary = task.Title]
    IN
    IF r3.err
    THEN Outcome(NoTask,
                 NewPlatformError(ErrPlatformAPI, "jira", task.ID,
                     Errorf("failed to update issue", TransportError(r3))),
                 w3, tr.server, FALSE)
    ELSE IF echo
    THEN Outcome(JiraToTask(JiraUpdateEcho(rid.id, fields)), NoErr, w3, s3, FALSE)
    ELSE
    LET r4 == Wire(fault, Len(w3) + 1, ReplyOK)
        w4 == w3 \o <<WireCall("Issue.Get", rid.id, r4)>>
    IN
    IF r4.err
    THEN Outcome(NoTask,
                 NewPlatformError(ErrPlatformAPI, "jira", task.ID,
                     Errorf("failed to get updated issue", TransportError(r4))),
                 w4, s3, FALSE)
    ELSE Outcome(JiraToTask(JiraIssueOf(s3)), NoErr, w4, s3, FALSE)

\* jira: Client.ListTasks
jiraListTasks(srv, filter, fault) ==
    LET r == Wire(fault, 1, ReplyOK)
        w == <<[call |-> "Issue.Search", target |-> "", ok |-> ~r.err,
                status |-> r.status, jql |-> buildJQLQuery(filter)]>>
    IN IF r.err
       THEN Outcome(NoList,
                    NewPlatformError(ErrPlatformAPI, "jira", "",
                        Errorf("failed to search issues", TransportError(r))),
                    w, srv, FALSE)
       ELSE Outcome(ListOf(IF srv.exists THEN <<JiraToTask(JiraIssueOf(srv))>> ELSE <<>>),
                    NoErr, w, srv, FALSE)

\* jira: Client.ListProjects
jiraListProjects(srv, fault) ==
    LET r == Wire(fault, 1, ReplyOK)
        w == <<WireCall("Project.GetList", "", r)>>
    IN IF r.err
       THEN Outcome(NoList,
                    NewPlatformError(ErrPlatformAPI, "jira", "",
                        Errorf("failed to list projects", TransportError(r))),
                    w, srv, FALSE)
       ELSE Outcome(ListOf(<<JiraProject>>), NoErr, w, srv, FALSE)

\* jira: Client.GetProject
jiraGetProject(srv, id, fault) ==
    LET r == Wire(fault, 1, IF id \in {ProjectKey, JiraProject.ID} THEN ReplyOK
                            ELSE Reply404)
        w == <<WireCall("Project.Get", id, r)>>
    IN IF r.err
       THEN IF IsNotFound(r)
            THEN Outcome(NoTask,
                         NewPlatformError(ErrNotFound, "jira", "",
                             Errorf("project not found", NoErr)),
                         w, srv, FALSE)
            ELSE Outcome(NoTask,
                         NewPlatformError(ErrPlatformAPI, "jira", "",
                             Errorf("failed to get project", TransportError(r))),
                         w, srv, FALSE)
       ELSE Outcome(JiraProject, NoErr, w, srv, FALSE)

\* jira: Client.GetCurrentUser
jiraGetCurrentUser(srv, fault) ==
    LET r == Wire(fault, 1, ReplyOK)
        w == <<WireCall("User.GetSelf", "", r)>>
    IN IF r.err
       THEN Outcome(NoTask,
                    NewPlatformError(ErrPlatformAPI, "jira", "",
                        Errorf("failed to get current user", TransportError(r))),
                    w, srv, FALSE)
       ELSE Outcome(JiraUser, NoErr, w, srv, FALSE)

\* jira: Client.SearchUsers
jiraSearchUsers(srv) == Outcome(ListOf(<<>>), NoErr, <<>>, srv, FALSE)

\* jira: Client.HealthCheck
jiraHealthCheck(srv, fault) ==
    LET r == jiraGetCurrentUser(srv, fault)
    IN Outcome(NoTask, r.err, r.wire, r.server, FALSE)

-----------------------------------------------------------------------------
(* The Linear server behind the GraphQL client                             *)

LinearIssueID == "lin-uuid-1"

LinearIdentifier == "ENG-1"

LinearProjectID == "lin-proj-1"

LinearServers ==
    [configured : {TRUE}, exists : BOOLEAN, title : {"t0"},
     stateType : {W.backlog, W.unstarted, W.started, W.completed, W.canceled, W.triage}]

\* the fault of one operation: none, or its GraphQL call failing with errors
\* in the answer, with no answer at all, or (a mutation) with success: false
LinearFaults == {NoFault} \cup [at : {1}, kind : {"gqlerr", "neterr", "unsuccessful"}]

\* an answer of the GraphQL client: err is the error being non-nil, success
\* the mutation's success flag
GqlReply(err, success) == [err |-> err, success |-> success]

GqlOK == GqlReply(FALSE, TRUE)

\* the answer for an entity the server does not have: errors in the body
GqlNotFound == [err |-> TRUE, success |-> FALSE, notFound |-> TRUE]

GqlWire(fault, natural) ==
    IF fault.at # 1 THEN natural
    ELSE IF fault.kind = "unsuccessful" THEN GqlReply(FALSE, FALSE)
    ELSE GqlReply(TRUE, FALSE)

GqlError(reply) ==
    IF "notFound" \in DOMAIN reply THEN Errorf("Entity not found", NoErr)
    ELSE Errorf("graphql request failed", NoErr)

\* the server finds the issue by its id or by its identifier
LinearResolves(srv, id) == srv.exists /\ id \in {LinearIssueID, LinearIdentifier}

LinearIssue(id, identifier, title, stateType) ==
    [ID |-> id, Identifier |-> identifier, Title |-> title, StateType |-> stateType]

LinearIssueOf(srv) == LinearIssue(LinearIssueID, LinearIdentifier, srv.title, srv.stateType)

\* LinearIssue.ToTask
LinearToTask(li) ==
    [present |-> TRUE, ID |-> li.Identifier, Title |-> li.Title,
     Status |-> convertLinearStatus(li.StateType), Platform |-> "linear",
     Metadata |-> [k \in {"linear_id"} |-> IdValue(li.ID)]]

LinearProject == [present |-> TRUE, ID |-> LinearProjectID, Platform |-> "linear"]

LinearUser == [present |-> TRUE, ID |-> "lin-user-1", Platform |-> "linear"]

\* one GraphQL call and its answer: ok is the call succeeding, notFound the
\* server answering that the entity addressed does not exist
GqlCall(call, id, ok, reply) ==
    [call |-> call, id |-> id, ok |-> ok, notFound |-> "notFound" \in DOMAIN reply]

\* linear: Client.CreateTask, the input it builds
linearCreateInput(task) ==
    LET teamID == GetMetadata(task, "team_id")
        assigneeID == IF task.Assignee.present
                      THEN GetMetadata(task.Assignee, "linear_id")
                      ELSE [value |-> Absent, ok |-> FALSE]
    IN  ("title" :> task.Title)
        @@ ("priority" :> convertToLinearPriority(task.Priority))
        @@ (IF teamID.ok THEN "teamId" :> teamID.value ELSE EmptyMap)
        @@ (IF assigneeID.ok THEN "assigneeId" :> assigneeID.value ELSE EmptyMap)
        @@ (IF task.ProjectID # "" THEN "projectId" :> task.ProjectID ELSE EmptyMap)

\* linear: Client.UpdateTask, the input it builds
linearUpdateInput(task) ==
    ("title" :> task.Title) @@ ("priority" :> convertToLinearPriority(task.Priority))

\* linear: Client.ListTasks, the filter it builds
linearFilter(filter) ==
    IF filter.nil
    THEN EmptyMap
    ELSE (IF filter.Status.present
          THEN "state" :> [type |-> [eq |-> convertToLinearStateType(filter.Status.value)]]
          ELSE EmptyMap)
         @@ (IF filter.Assignee # ""
             THEN "assignee" :> [email |-> [eq |-> filter.Assignee]]
             ELSE EmptyMap)

\* linear: Client.CreateTask (the server refuses an issue without a team)
linearCreateTask(srv, task, fault) ==
    LET r == GqlWire(fault, IF GetMetadata(task, "team_id").ok THEN GqlOK
                            ELSE GqlReply(TRUE, FALSE))
        w == <<[call |-> "issueCreate", id |-> Absent, ok |-> ~r.err /\ r.success,
                notFound |-> "notFound" \in DOMAIN r,
                input |-> linearCreateInput(task)]>>
        made == IF srv.exists
                THEN LinearIssue("lin-uuid-2", "ENG-2", task.Title, W.backlog)
                ELSE LinearIssue(LinearIssueID, LinearIdentifier, task.Title, W.backlog)
        after == IF srv.exists THEN srv
                 ELSE [srv EXCEPT !.exists = TRUE, !.title = task.Title,
                                  !.stateType = W.backlog]
    IN IF r.err
       THEN Outcome(NoTask,
                    NewPlatformError(ErrPlatformAPI, "linear", "",
                        Errorf("failed to create issue", GqlError(r))),
                    w, srv, FALSE)
       ELSE IF ~r.success
       THEN Outcome(NoTask,
                    NewPlatformError(ErrPlatformAPI, "linear", "",
                        Errorf("issue creation failed", NoErr)),
                    w, srv, FALSE)
       ELSE Outcome(LinearToTask(made), NoErr, w, after, FALSE)

\* linear: Client.GetTask
linearGetTask(srv, id, fault) ==
    LET r == GqlWire(fault, IF LinearResolves(srv, id) THEN GqlOK ELSE GqlNotFound)
        w == <<GqlCall("issue", IdValue(id), ~r.err, r)>>
    IN IF r.err
       THEN Outcome(NoTask,
                    NewPlatformError(ErrPlatformAPI, "linear", id,
                        Errorf("failed to get issue", GqlError(r))),
                    w, srv, FALSE)
       ELSE Outcome(LinearToTask(LinearIssueOf(srv)), NoErr, w, srv, FALSE)

\* linear: Client.UpdateTask, the identifier it addresses the issue by
linearResolveID(task) ==
    LET m == GetMetadata(task, "linear_id")
    IN IF m.ok THEN [ok |-> TRUE, id |-> m.value] ELSE [ok |-> FALSE]

\* linear: Client.UpdateTask
linearUpdateTask(srv, task, fault) ==
    LET rid == linearResolveID(task) IN
    IF ~rid.ok
    THEN Outcome(NoTask,
                 NewPlatformError(ErrInvalidInput, "linear", task.ID,
                     Errorf("linear_id not found in task metadata", NoErr)),
                 <<>>, srv, FALSE)
    ELSE
    LET r == GqlWire(fault, IF IsString(rid.id) /\ LinearResolves(srv, rid.id.id)
                            THEN GqlOK ELSE GqlNotFound)
        w == <<[call |-> "issueUpdate", id |-> rid.id, ok |-> ~r.err /\ r.success,
                notFound |-> "notFound" \in DOMAIN r,
                input |-> linearUpdateInput(task)]>>
        after == [srv EXCEPT !.title = task.Title]
    IN IF r.err
       THEN Outcome(NoTask,
                    NewPlatformError(ErrPlatformAPI, "linear", task.ID,
                        Errorf("failed to update issue", GqlError(r))),
                    w, srv, FALSE)
       ELSE IF ~r.success
       THEN Outcome(NoTask,
                    NewPlatformError(ErrPlatformAPI, "linear", task.ID,
                        Errorf("issue update failed", NoErr)),
                    w, srv, FALSE)
       ELSE Outcome(LinearToTask(LinearIssueOf(after)), NoErr, w, after, FALSE)

\* linear: Client.DeleteTask
linearDeleteTask(srv, id, fault) ==
    LET r == GqlWire(fault, IF LinearResolves(srv, id) THEN GqlOK ELSE GqlNotFound)
        w == <<GqlCall("issueDelete", IdValue(id), ~r.err /\ r.success, r)>>
    IN IF r.err
       THEN Outcome(NoTask,
                    NewPlatformError(ErrPlatformAPI, "linear", id,
                        Errorf("failed to delete issue", GqlError(r))),
                    w, srv, FALSE)
       ELSE IF ~r.success
       THEN Outcome(NoTask,
                    NewPlatformError(ErrPlatformAPI, "linear", id,
                        Errorf("issue deletion failed", NoErr)),
                    w, srv, FALSE)
       ELSE Outcome(NoTask, NoErr, w, [srv EXCEPT !.exists = FALSE], FALSE)

\* linear: a query that addresses no issue (ListTasks, ListProjects,
\* GetCurrentUser, SearchUsers): its one call, wrapped on failure
linearQuery(srv, call, natural, failure, value, fault) ==
    LET r == GqlWire(fault, natural)
        w == <<GqlCall(call, Absent, ~r.err, r)>>
    IN IF r.err
       THEN Outcome(IF "items" \in DOMAIN value THEN NoList ELSE NoTask,
                    NewPlatformError(ErrPlatformAPI, "linear", "",
                        Errorf(failure, GqlError(r))),
                    w, srv, FALSE)
       ELSE Outcome(value, NoErr, w, srv, FALSE)

\* linear: Client.ListTasks
linearListTasks(srv, filter, fault) ==
    LET r == GqlWire(fault, GqlOK)
        w == <<[call |-> "issues", id |-> Absent, ok |-> ~r.err,
                notFound |-> "notFound" \in DOMAIN r,
                filter |-> linearFilter(filter)]>>
    IN IF r.err
       THEN Outcome(NoList,
                    NewPlatformError(ErrPlatformAPI, "linear", "",
                        Errorf("failed to list issues", GqlError(r))),
                    w, srv, FALSE)
       ELSE Outcome(ListOf(IF srv.exists THEN <<LinearToTask(LinearIssueOf(srv))>>
                           ELSE <<>>),
                    NoErr, w, srv, FALSE)

\* linear: Client.ListProjects
linearListProjects(srv, fault) ==
    linearQuery(srv, "projects", GqlOK, "failed to list projects",
                ListOf(<<LinearProject>>), fault)

\* linear: Client.GetProject
linearGetProject(srv, id, fault) ==
    LET r == GqlWire(fault, IF id = LinearProjectID THEN GqlOK ELSE GqlNotFound)
        w == <<GqlCall("project", IdValue(id), ~r.err, r)>>
    IN IF r.err
       THEN Outcome(NoTask,
                    NewPlatformError(ErrPlatformAPI, "linear", "",
                        Errorf("failed to get project", GqlError(r))),
                    w, srv, FALSE)
       ELSE Outcome(LinearProject, NoErr, w, srv, FALSE)

\* linear: Client.GetCurrentUser
linearGetCurrentUser(srv, fault) ==
    linearQuery(srv, "viewer", GqlOK, "failed to get current user", LinearUser, fault)

\* linear: Client.SearchUsers
linearSearchUsers(srv, fault) ==
    linearQuery(srv, "users", GqlOK, "failed to search users",
                ListOf(<<LinearUser>>), fault)

\* linear: Client.HealthCheck
linearHealthCheck(srv, fault) ==
    LET r == linearGetCurrentUser(srv, fault)
    IN Outcome(NoTask, r.err, r.wire, r.server, FALSE)

-----------------------------------------------------------------------------
(* Calls of the adapters                                                   *)

\* the fault of one operation: none, or its k-th wire call (k up to n) failing
\* with an HTTP 500 answer or with no answer at all (connection failure)
FaultsUpTo(n) == {NoFault} \cup [at : 1..n, kind : {"http500", "neterr"}]

\* the filters ListTasks is called with: nil, empty, one field each, all five
ListFilters ==
    {NilFilter,
     TaskFilter(NilPtr, NilPtr, "", "", <<>>, ""),
     TaskFilter(Ptr(StatusDone), NilPtr, "", "", <<>>, ""),
     TaskFilter(NilPtr, NilPtr, "john.doe", "", <<>>, ""),
     TaskFilter(NilPtr, NilPtr, "", "TEST", <<>>, ""),
     TaskFilter(NilPtr, NilPtr, "", "", <<"bug">>, ""),
     TaskFilter(NilPtr, NilPtr, "", "", <<>>, "test query"),
     TaskFilter(Ptr(StatusInProgress), Ptr(PriorityHigh), "john.doe", "TEST",
                <<"bug", "urgent">>, "test query")}

\* the arguments the Jira operations are called with: tasks to update and to
\* create, issue ids and keys, project keys
JiraArgs ==
    LET metadatas ==
            {EmptyMap} \cup
            {[k \in {"jira_id"} |-> v] :
                v \in {NonString, IdValue(IssueID), IdValue(UnknownID)}}
        assignees ==
            {NoUser, User("user-1", EmptyMap),
             User("user-1", [k \in {"jira_account_id"} |-> IdValue("acct-1")]),
             User("user-1", [k \in {"jira_account_id"} |-> NonString])}
    IN [update |-> [ID : {IssueKey, UnknownKey}, Title : {"t1"},
                    Status : CanonicalStatuses \cup {""}, Priority : {"", PriorityHigh},
                    Assignee : {NoUser, User("user-1", EmptyMap)},
                    ProjectID : {ProjectKey}, Labels : {<<>>, <<"bug">>},
                    Metadata : metadatas],
        create |-> [ID : {""}, Title : {"t1"}, Status : {StatusOpen, StatusDone},
                    Priority : {"", PriorityHigh}, Assignee : assignees,
                    ProjectID : {"", ProjectKey, "NOPE"},
                    Labels : {<<>>, <<"bug">>, <<"bug", "urgent">>},
                    Metadata : {EmptyMap}],
        issue |-> {IssueKey, IssueID, UnknownKey},
        project |-> {ProjectKey, "NOPE"}]

\* the arguments the Linear operations are called with
LinearArgs ==
    LET metadatas ==
            {EmptyMap} \cup
            {[k \in {"linear_id"} |-> v] :
                v \in {NonString, IdValue(LinearIssueID), IdValue(UnknownID)}}
        assignees ==
            {NoUser, User("user-1", EmptyMap),
             User("user-1", [k \in {"linear_id"} |-> IdValue("lin-user-1")])}
    IN [update |-> [ID : {LinearIdentifier, UnknownKey}, Title : {"t1"},
                    Status : CanonicalStatuses \cup {""}, Priority : {PriorityMedium},
                    Assignee : {NoUser, User("user-1", EmptyMap)},
                    ProjectID : {"", LinearProjectID}, Labels : {<<>>, <<"bug">>},
                    Metadata : metadatas],
        create |-> [ID : {""}, Title : {"t1"}, Status : {StatusOpen, StatusDone},
                    Priority : {PriorityMedium, PriorityUrgent}, Assignee : assignees,
                    ProjectID : {"", LinearProjectID}, Labels : {<<>>, <<"bug">>},
                    Metadata : {EmptyMap, [k \in {"team_id"} |-> IdValue("team-1")]}],
        issue |-> {LinearIdentifier, LinearIssueID, UnknownKey},
        project |-> {LinearProjectID, "NOPE"}]

\* what the caller of an adapter operation sees, with the call (task is the
\* task or the filter handed in) and the platform as it was before the call
AdapterRet(op, task, id, r, before) ==
    [op |-> op, task |-> task, id |-> id, value |-> r.value, err |-> r.err,
     wire |-> r.wire, panic |-> r.panic, before |-> before]

JiraDone(op, task, id, r) ==
    /\ jira' = r.server
    /\ ret' = AdapterRet(op, task, id, r, jira)
    /\ UNCHANGED <<factories, linear, conv, heldTask, now, pending, ctxDone, ui>>

JiraReady == jira.configured /\ ret.op = "none"

JiraCreateTask ==
    /\ JiraReady
    /\ \E task \in JiraArgs.create, fault \in FaultsUpTo(1), full \in BOOLEAN :
           JiraDone("jira.CreateTask", task, "", jiraCreateTask(jira, task, fault, full))

JiraGetTask ==
    /\ JiraReady
    /\ \E id \in JiraArgs.issue, fault \in FaultsUpTo(1) :
           JiraDone("jira.GetTask", NoTask, id, jiraGetTask(jira, id, fault))

JiraUpdateTask ==
    /\ JiraReady
    /\ \E task \in JiraArgs.update, fault \in FaultsUpTo(MaxWire), echo \in BOOLEAN :
           JiraDone("jira.UpdateTask", task, "", jiraUpdateTask(jira, task, fault, echo))

JiraDeleteTask ==
    /\ JiraReady
    /\ \E id \in JiraArgs.issue, fault \in FaultsUpTo(1) :
           JiraDone("jira.DeleteTask", NoTask, id, jiraDeleteTask(jira, id, fault))

JiraListTasks ==
    /\ JiraReady
    /\ \E filter \in ListFilters, fault \in FaultsUpTo(1) :
           JiraDone("jira.ListTasks", filter, "", jiraListTasks(jira, filter, fault))

JiraListProjects ==
    /\ JiraReady
    /\ \E fault \in FaultsUpTo(1) :
           JiraDone("jira.ListProjects", NoTask, "", jiraListProjects(jira, fault))

JiraGetProject ==
    /\ JiraReady
    /\ \E id \in JiraArgs.project, fault \in FaultsUpTo(1) :
           JiraDone("jira.GetProject", NoTask, id, jiraGetProject(jira, id, fault))

JiraGetCurrentUser ==
    /\ JiraReady
    /\ \E fault \in FaultsUpTo(1) :
           JiraDone("jira.GetCurrentUser", NoTask, "", jiraGetCurrentUser(jira, fault))

JiraSearchUsers ==
    /\ JiraReady
    /\ JiraDone("jira.SearchUsers", NoTask, "", jiraSearchUsers(jira))

JiraHealthCheck ==
    /\ JiraReady
    /\ \E fault \in FaultsUpTo(1) :
           JiraDone("jira.HealthCheck", NoTask, "", jiraHealthCheck(jira, fault))

LinearDone(op, task, id, r) ==
    /\ linear' = r.server
    /\ ret' = AdapterRet(op, task, id, r, linear)
    /\ UNCHANGED <<factories, jira, conv, heldTask, now, pending, ctxDone, ui>>

LinearReady == linear.configured /\ ret.op = "none"

LinearCreateTask ==
    /\ LinearReady
    /\ \E task \in LinearArgs.create, fault \in LinearFaults :
           LinearDone("linear.CreateTask", task, "", linearCreateTask(linear, task, fault))

LinearGetTask ==
    /\ LinearReady
    /\ \E id \in LinearArgs.issue, fault \in LinearFaults :
           LinearDone("linear.GetTask", NoTask, id, linearGetTask(linear, id, fault))

LinearUpdateTask ==
    /\ LinearReady
    /\ \E task \in LinearArgs.update, fault \in LinearFaults :
           LinearDone("linear.UpdateTask", task, "", linearUpdateTask(linear, task, fault))

LinearDeleteTask ==
    /\ LinearReady
    /\ \E id \in LinearArgs.issue, fault \in LinearFaults :
           LinearDone("linear.DeleteTask", NoTask, id, linearDeleteTask(linear, id, fault))

LinearListTasks ==
    /\ LinearReady
    /\ \E filter \in ListFilters, fault \in LinearFaults :
           LinearDone("linear.ListTasks", filter, "", linearListTasks(linear, filter, fault))

LinearListProjects ==
    /\ LinearReady
    /\ \E fault \in LinearFaults :
           LinearDone("linear.ListProjects", NoTask, "", linearListProjects(linear, fault))

LinearGetProject ==
    /\ LinearReady
    /\ \E id \in LinearArgs.project, fault \in LinearFaults :
           LinearDone("linear.GetProject", NoTask, id, linearGetProject(linear, id, fault))

LinearGetCurrentUser ==
    /\ LinearReady
    /\ \E fault \in LinearFaults :
           LinearDone("linear.GetCurrentUser", NoTask, "",
                      linearGetCurrentUser(linear, fault))

LinearSearchUsers ==
    /\ LinearReady
    /\ \E fault \in LinearFaults :
           LinearDone("linear.SearchUsers", NoTask, "", linearSearchUsers(linear, fault))

LinearHealthCheck ==
    /\ LinearReady
    /\ \E fault \in LinearFaults :
           LinearDone("linear.HealthCheck", NoTask, "", linearHealthCheck(linear, fault))

-----------------------------------------------------------------------------
(* The specification: a run works the registry, or a Jira client, or a     *)
(* Linear client; the components share no state                            *)

\* the default registry once both adapters' init() have run
DefaultFactories == [t \in {"jira", "linear"} |->
                        IF t = "jira" THEN JiraFactory ELSE LinearFactory]

\* a run works a registry that starts empty, or a Jira client, or a Linear
\* client, the client's platform in any of its states
Init ==
    /\ ret = NoRet
    /\ conv = NoConv
    /\ heldTask = [present |-> FALSE]
    /\ now = 0
    /\ pending = [state |-> "idle"]
    /\ ctxDone = FALSE
    /\ ui = NoView
    /\ \/ factories = EmptyMap /\ jira = Unconfigured /\ linear = Unconfigured
       \/ factories = DefaultFactories /\ jira \in JiraServers /\ linear = Unconfigured
       \/ factories = DefaultFactories /\ jira = Unconfigured /\ linear \in LinearServers

Next ==
    \/ \E f \in Factories : Register(f)
    \/ \E t \in PlatformTypes, config \in Configs : Create(t, config)
    \/ Consume
    \/ JiraCreateTask
    \/ JiraGetTask
    \/ JiraUpdateTask
    \/ JiraDeleteTask
    \/ JiraListTasks
    \/ JiraListProjects
    \/ JiraGetProject
    \/ JiraGetCurrentUser
    \/ JiraSearchUsers
    \/ JiraHealthCheck
    \/ LinearCreateTask
    \/ LinearGetTask
    \/ LinearUpdateTask
    \/ LinearDeleteTask
    \/ LinearListTasks
    \/ LinearListProjects
    \/ LinearGetProject
    \/ LinearGetCurrentUser
    \/ LinearSearchUsers
    \/ LinearHealthCheck

Spec == Init /\ [][Next]_vars


-----------------------------------------------------------------------------
(* Properties of Registry.Create                                           *)

\* the registry returned from a Create call
Created == ret.op = "Registry.Create"

\* a PlatformError with the code given
IsPlatformError(err, code) == err.type = "PlatformError" /\ err.Code = code

\* C1: Registry.Create(t, cfg) for a type t with no registered factory returns
\* a nil client and a PlatformError platform_not_supported whose Platform is t,
\* calls no method of any factory, and leaves the factory map as it was
C1_UnknownTypeNotSupported ==
    (Created /\ ret.platformType \notin DOMAIN ret.before) =>
        /\ ret.client = NilClient
        /\ IsPlatformError(ret.err, ErrPlatformNotSupported)
        /\ ret.err.Platform = ret.platformType
        /\ ret.calls = <<>>
        /\ factories = ret.before

\* C1's case: Create("jira", cfg) answered platform_not_supported by a
\* registry that holds the linear factory only
C1_Witness ==
    /\ Created
    /\ ret.platformType = "jira"
    /\ DOMAIN ret.before = {"linear"}
    /\ IsPlatformError(ret.err, ErrPlatformNotSupported)

\* a required key of the type's config is missing, is no string, or is empty
RequiredKeyBad(platformType, config) ==
    LET bad(v) == ~IsString(v) \/ v.s = <<>>
    IN IF platformType = "jira"
       THEN bad(config.base_url) \/ bad(config.email) \/ bad(config.token)
       ELSE bad(config.token)

\* C2: Registry.Create(t, cfg) for a registered type whose validator refuses
\* cfg (a required key missing, no string, or empty) returns a nil client and
\* a PlatformError invalid_config whose Cause is the validator's error, and
\* does not call the factory's Create
C2_InvalidConfigNotCreated ==
    (Created /\ ret.platformType \in DOMAIN ret.before) =>
        LET factory == ret.before[ret.platformType]
            verr == FactoryValidateConfig(factory, ret.config)
            refused ==
                /\ ret.client = NilClient
                /\ IsPlatformError(ret.err, ErrInvalidConfig)
                /\ ret.err.Cause.type = "error"
                /\ \A i \in 1..Len(ret.calls) : ret.calls[i].method # "Create"
        IN /\ RequiredKeyBad(factory.type, ret.config) => refused
           /\ verr # NoErr => refused /\ ret.err.Cause = verr

\* C2's case: Create("jira", {}) on the default registry, refused
C2_Witness ==
    /\ Created
    /\ ret.platformType = "jira"
    /\ ret.before = DefaultFactories
    /\ ret.config = [base_url |-> Absent, email |-> Absent, token |-> Absent]
    /\ IsPlatformError(ret.err, ErrInvalidConfig)
    /\ ret.calls = <<FactoryCall(JiraFactory, "ValidateConfig")>>


-----------------------------------------------------------------------------
(* Properties of the adapters' errors                                      *)

\* an operation that returns an error value has returned
Returned == ret.op \notin {"none", "Registry.Register"}

\* C3: every non-nil error that Registry.Create or an operation of either
\* adapter returns is a PlatformError with one of the ten codes; an error of
\* the transport, the SDK or a validator is never the error returned, on any
\* failure path, the transition step inside Jira's UpdateTask included
C3_OnlyPlatformErrors ==
    (Returned /\ ret.err # NoErr) =>
        /\ ret.err.type = "PlatformError"
        /\ ret.err.Code \in ErrorCodes
        /\ ret.err.Cause.type \in {"nil", "error"}

\* C3's case: Jira's UpdateTask failing inside the transition step, the
\* transport's error wrapped as the Cause
C3_Witness ==
    /\ ret.op = "jira.UpdateTask"
    /\ Len(ret.wire) = 3
    /\ ret.wire[3].call = "Issue.DoTransition"
    /\ ~ret.wire[3].ok
    /\ IsPlatformError(ret.err, ErrPlatformAPI)
    /\ ret.err.Cause.wraps.type = "error"

\* UpdateTask of Linear called with a task that has no linear_id
LinearIdAbsent ==
    ret.op = "linear.UpdateTask" /\ "linear_id" \notin DOMAIN ret.task.Metadata

\* UpdateTask of Jira called with a task that has no jira_id
JiraIdAbsent ==
    ret.op = "jira.UpdateTask" /\ "jira_id" \notin DOMAIN ret.task.Metadata

\* UpdateTask of Jira called with a task whose jira_id is no string
JiraIdNonString ==
    /\ ret.op = "jira.UpdateTask"
    /\ "jira_id" \in DOMAIN ret.task.Metadata
    /\ ~IsString(ret.task.Metadata["jira_id"])

\* the call was refused as invalid_input before any wire call
RefusedUnsent ==
    /\ IsPlatformError(ret.err, ErrInvalidInput)
    /\ ret.value = NoTask
    /\ ret.wire = <<>>

-----------------------------------------------------------------------------
(* Properties of Jira's UpdateTask, GetTask, DeleteTask, CreateTask        *)

\* Jira's UpdateTask read the issue and its status maps to another canonical
\* status than the task's
StatusDiffers ==
    /\ ret.op = "jira.UpdateTask"
    /\ Len(ret.wire) >= 1
    /\ ret.wire[1].ok
    /\ convertFromJiraStatus(ret.before.status.name) # ret.task.Status

C6_JiraNotFoundOrAPIError ==
    ret.op \in {"jira.GetTask", "jira.DeleteTask"} =>
        LET c == ret.wire[1]
        IN /\ c.target = ret.id
           /\ c.status = 404 =>
                  /\ IsPlatformError(ret.err, ErrNotFound)
                  /\ ret.err.TaskID = ret.id
                  /\ ret.value = NoTask
           /\ (~c.ok /\ c.status # 404) =>
                  /\ IsPlatformError(ret.err, ErrPlatformAPI)
                  /\ ret.err.TaskID = ret.id
                  /\ ret.err.Cause.wraps.type = "error"
                  /\ ret.value = NoTask

\* C6's case: GetTask of an issue the server does not have, answered 404
C6_Witness ==
    /\ ret.op = "jira.GetTask"
    /\ ret.id = UnknownKey
    /\ ret.wire[1].status = 404
    /\ IsPlatformError(ret.err, ErrNotFound)
    /\ ret.err.TaskID = UnknownKey

\* the platform answered that the resource addressed does not exist
AnsweredMissing ==
    \/ /\ ret.op \in {"jira.GetProject", "jira.UpdateTask"}
       /\ ret.wire # <<>>
       /\ ret.wire[1].status = 404
    \/ /\ ret.op \in {"linear.GetTask", "linear.UpdateTask", "linear.DeleteTask",
                      "linear.GetProject"}
       /\ ret.wire # <<>>
       /\ ret.wire[1].notFound

\* C7: in Jira's GetProject and UpdateTask and in Linear's GetTask,
\* UpdateTask, DeleteTask and GetProject, an answer saying the resource
\* addressed does not exist yields not_found carrying the id asked for,
\* never platform_api_error and never an empty id
C7_NotFoundEverywhere ==
    AnsweredMissing =>
        /\ IsPlatformError(ret.err, ErrNotFound)
        /\ ret.err.TaskID # ""
        /\ ret.err.TaskID = (IF ret.id # "" THEN ret.id ELSE ret.task.ID)

\* C8: Jira's CreateTask with an empty ProjectID returns a nil task and
\* invalid_input, no wire call made, the platform untouched
C8_CreateNeedsProject ==
    (ret.op = "jira.CreateTask" /\ ret.task.ProjectID = "") =>
        /\ ret.value = NoTask
        /\ IsPlatformError(ret.err, ErrInvalidInput)
        /\ ret.wire = <<>>
        /\ jira = ret.before

\* C8's case: a create without project, refused
C8_Witness ==
    /\ ret.op = "jira.CreateTask"
    /\ ret.task.ProjectID = ""
    /\ IsPlatformError(ret.err, ErrInvalidInput)
    /\ ret.wire = <<>>

-----------------------------------------------------------------------------
(* Matching errors by kind (PlatformError.Is)                              *)

\* PlatformError.Is comparing the whole error instead of its Code
PlatformErrorIs_SameError(e, target) == e = target

\* PlatformError.Is: the type assertion on target, then the comparison of codes
PlatformErrorIs(e, target) ==
    IF target.type = "PlatformError" THEN e.Code = target.Code ELSE FALSE

\* the PlatformErrors tried: three codes, both platforms, with and without a
\* task id and a cause
PlatformErrors ==
    {NewPlatformError(code, platform, taskID, cause) :
        code \in {ErrNotFound, ErrInvalidInput, ErrPlatformAPI},
        platform \in {"jira", "linear"},
        taskID \in {"", "TEST-123"},
        cause \in {NoErr, Errorf("connection failed", NoErr)}}

\* the targets tried: every PlatformError, the nil error, an error of another
\* type, and an error of another type that wraps a PlatformError
IsTargets ==
    PlatformErrors \cup
    {NoErr, Errorf("connection failed", NoErr),
     Errorf("failed to get issue", NewPlatformError(ErrNotFound, "jira", "", NoErr))}

\* e.Is(target)
ErrorIs(e, target) ==
    /\ conv' = [fn |-> "PlatformError.Is", e |-> e, target |-> target,
                out |-> PlatformErrorIs(e, target)]
    /\ UNCHANGED <<factories, jira, linear, ret, heldTask, now, pending, ctxDone, ui>>

\* e.Is(target) and target.Is(e) for two PlatformErrors
ErrorIsBothWays(e, target) ==
    /\ conv' = [fn |-> "PlatformError.Is both ways", e |-> e, target |-> target,
                out |-> PlatformErrorIs(e, target),
                back |-> PlatformErrorIs(target, e)]
    /\ UNCHANGED <<factories, jira, linear, ret, heldTask, now, pending, ctxDone, ui>>

\* err == &PlatformError{Code: code}: the comparison of the error's pointer
\* with the address of a value allocated for the comparison, which no error
\* built earlier has
EqualsFreshPointer(err, code) == FALSE

\* IsAuthenticationError, IsNotFoundError, IsRateLimitError, each with its
\* code: pe is declared and never assigned, so it is nil at the second test
isErrorOfKind(err, code) ==
    LET pe == NoErr
    IN  err # NoErr /\ (EqualsFreshPointer(err, code)
                        \/ (pe # NoErr /\ pe.Code = code))

\* the helpers and the code each compares with
KindHelpers ==
    [IsAuthenticationError |-> ErrAuthentication,
     IsNotFoundError |-> ErrNotFound,
     IsRateLimitError |-> ErrRateLimited]

\* the errors handed to the helpers: the targets of Is, and freshly built
\* PlatformErrors of the three codes and of one other
KindInputs ==
    IsTargets \cup
    {NewPlatformError(code, platform, taskID, cause) :
        code \in {ErrAuthentication, ErrNotFound, ErrRateLimited, ErrNetworkError},
        platform \in {"jira", "linear"},
        taskID \in {"", "TEST-123"},
        cause \in {NoErr, Errorf("connection failed", NoErr)}}

\* one of the three helpers called on err
ErrorKind(helper, err) ==
    /\ conv' = [fn |-> helper, e |-> err, out |-> isErrorOfKind(err, KindHelpers[helper])]
    /\ UNCHANGED <<factories, jira, linear, ret, heldTask, now, pending, ctxDone, ui>>

NextError ==
    \/ \E e \in PlatformErrors, target \in IsTargets : ErrorIs(e, target)
    \/ \E e \in PlatformErrors, target \in PlatformErrors : ErrorIsBothWays(e, target)
    \/ \E helper \in DOMAIN KindHelpers, err \in KindInputs : ErrorKind(helper, err)

SpecError == InitStatus /\ [][NextError]_vars

-----------------------------------------------------------------------------
(* C20: PlatformError.Is                                                   *)

\* C20: e.Is(target) is true exactly when target is a PlatformError whose Code
\* equals e's, whatever their Platform, TaskID and Cause; it is false when the
\* codes differ or target is not a PlatformError; it is reflexive and symmetric.
C20_IsByCode ==
    conv.fn \in {"PlatformError.Is", "PlatformError.Is both ways"} =>
        /\ conv.out = TRUE <=>
               (conv.target.type = "PlatformError" /\ conv.target.Code = conv.e.Code)
        /\ conv.out \in BOOLEAN
        /\ conv.target = conv.e => conv.out = TRUE
        /\ conv.fn = "PlatformError.Is both ways" => conv.out = conv.back

\* C20 witness: two errors of the same code from different platforms, with
\* different task ids and causes, were matched
C20_Witness ==
    /\ conv.fn = "PlatformError.Is both ways"
    /\ conv.e.Code = conv.target.Code
    /\ conv.e.Platform # conv.target.Platform
    /\ conv.e.TaskID # conv.target.TaskID
    /\ conv.e.Cause # conv.target.Cause
    /\ conv.out = TRUE

-----------------------------------------------------------------------------
(* The canonical task and its mutators (models.Task)                       *)

\* how far the clock is followed
MaxTime == 2

\* NewTask at time t.  Labels is a sequence in slice order, the nil slice and
\* the empty slice both being <<>>: no mutator tells them apart.
NewTask(title, platform, t) ==
    [present |-> TRUE, Title |-> title, Platform |-> platform,
     Status |-> StatusOpen, Priority |-> PriorityMedium, Assignee |-> NoUser,
     Labels |-> <<>>, CreatedAt |-> t, UpdatedAt |-> t, Metadata |-> EmptyMap]

\* Task.SetStatus without the IsValid test
TaskSetStatus_Unchecked(t, status, time) ==
    [t EXCEPT !.Status = status, !.UpdatedAt = time]

\* Task.SetStatus at time time
TaskSetStatus(t, status, time) ==
    IF StatusIsValid(status)
    THEN [t EXCEPT !.Status = status, !.UpdatedAt = time]
    ELSE t

\* Task.SetPriority
TaskSetPriority(t, priority, time) ==
    IF PriorityIsValid(priority)
    THEN [t EXCEPT !.Priority = priority, !.UpdatedAt = time]
    ELSE t

\* Task.SetAssignee
TaskSetAssignee(t, user, time) == [t EXCEPT !.Assignee = user, !.UpdatedAt = time]

\* Task.AddLabel appending without looking for the label
TaskAddLabel_Append(t, label, time) ==
    [t EXCEPT !.Labels = Append(t.Labels, label), !.UpdatedAt = time]

\* Task.AddLabel
TaskAddLabel(t, label, time) ==
    IF \E i \in 1..Len(t.Labels) : t.Labels[i] = label
    THEN t
    ELSE [t EXCEPT !.Labels = Append(t.Labels, label), !.UpdatedAt = time]

\* Task.RemoveLabel setting UpdatedAt whether or not the label was found
TaskRemoveLabel_AlwaysTouch(t, label, time) ==
    IF \E i \in 1..Len(t.Labels) : t.Labels[i] = label
    THEN LET i == CHOOSE i \in 1..Len(t.Labels) :
                      /\ t.Labels[i] = label
                      /\ \A j \in 1..(i - 1) : t.Labels[j] # label
         IN  [t EXCEPT !.Labels = SubSeq(t.Labels, 1, i - 1)
                                      \o SubSeq(t.Labels, i + 1, Len(t.Labels)),
                       !.UpdatedAt = time]
    ELSE [t EXCEPT !.UpdatedAt = time]

\* Task.RemoveLabel: the first occurrence is cut out
TaskRemoveLabel(t, label, time) ==
    IF \E i \in 1..Len(t.Labels) : t.Labels[i] = label
    THEN LET i == CHOOSE i \in 1..Len(t.Labels) :
                      /\ t.Labels[i] = label
                      /\ \A j \in 1..(i - 1) : t.Labels[j] # label
         IN  [t EXCEPT !.Labels = SubSeq(t.Labels, 1, i - 1)
                                      \o SubSeq(t.Labels, i + 1, Len(t.Labels)),
                       !.UpdatedAt = time]
    ELSE t

\* Task.SetMetadata
TaskSetMetadata(t, key, value, time) ==
    [t EXCEPT !.Metadata = [k \in DOMAIN t.Metadata \cup {key} |->
                                IF k = key THEN value ELSE t.Metadata[k]],
              !.UpdatedAt = time]

\* a mutator has returned: what was called, with what, when, on which task
TaskCall(op, arg, after) ==
    /\ heldTask.present
    /\ ret' = [op |-> op, arg |-> arg, at |-> now, before |-> heldTask]
    /\ heldTask' = after
    /\ UNCHANGED <<factories, jira, linear, conv, now, pending, ctxDone, ui>>

CallNewTask(title, platform) ==
    /\ ~heldTask.present
    /\ ret' = [op |-> "NewTask", arg |-> title, at |-> now, before |-> heldTask]
    /\ heldTask' = NewTask(title, platform, now)
    /\ UNCHANGED <<factories, jira, linear, conv, now, pending, ctxDone, ui>>

SetStatus(status) ==
    TaskCall("SetStatus", status, TaskSetStatus(heldTask, status, now))

SetPriority(priority) ==
    TaskCall("SetPriority", priority, TaskSetPriority(heldTask, priority, now))

SetAssignee(user) ==
    TaskCall("SetAssignee", user, TaskSetAssignee(heldTask, user, now))

AddLabel(label) ==
    TaskCall("AddLabel", label, TaskAddLabel(heldTask, label, now))

RemoveLabel(label) ==
    TaskCall("RemoveLabel", label, TaskRemoveLabel(heldTask, label, now))

SetMetadata(key, value) ==
    TaskCall("SetMetadata", <<key, value>>, TaskSetMetadata(heldTask, key, value, now))

\* time passes between two calls
Tick ==
    /\ now < MaxTime
    /\ now' = now + 1
    /\ UNCHANGED <<factories, jira, linear, conv, ret, heldTask, pending, ctxDone, ui>>

NextTask ==
    \/ CallNewTask("Test Task", "linear")
    \/ \E status \in StatusArgs : SetStatus(status)
    \/ \E priority \in PriorityArgs : SetPriority(priority)
    \/ \E user \in {NoUser, User("user-1", EmptyMap)} : SetAssignee(user)
    \/ \E label \in {"bug", "urgent"} : AddLabel(label)
    \/ \E label \in {"bug", "urgent"} : RemoveLabel(label)
    \/ \E value \in {IdValue("team-1"), IdValue("team-2")} : SetMetadata("team_id", value)
    \/ Tick

SpecTask == InitStatus /\ [][NextTask]_vars

-----------------------------------------------------------------------------
(* C17, C18, C19: the task's mutators                                      *)

\* the fields of a task other than UpdatedAt
Content(t) == [f \in DOMAIN t \ {"UpdatedAt"} |-> t[f]]

\* C17: SetStatus and SetPriority with a member of the enumeration set the
\* field to it and UpdatedAt to the time of the call; with any other value they
\* leave every field of the task as it was; so a task made by NewTask always
\* has a Status and a Priority of the enumerations.
C17_EnumSetters ==
    /\ ret.op = "SetStatus" =>
           IF ret.arg \in CanonicalStatuses
           THEN heldTask.Status = ret.arg /\ heldTask.UpdatedAt = ret.at
           ELSE heldTask = ret.before
    /\ ret.op = "SetPriority" =>
           IF ret.arg \in Priorities
           THEN heldTask.Priority = ret.arg /\ heldTask.UpdatedAt = ret.at
           ELSE heldTask = ret.before
    /\ heldTask.present =>
           heldTask.Status \in CanonicalStatuses /\ heldTask.Priority \in Priorities

\* C17 witness: an invalid status was offered to a task whose status had been
\* changed earlier, at a later time
C17_Witness ==
    /\ ret.op = "SetStatus"
    /\ ret.arg = "blocked"
    /\ ret.before.Status = StatusDone
    /\ ret.at > ret.before.UpdatedAt

\* the call returned without doing anything: an invalid enumeration value, a
\* label already there, a label not there
Skipped ==
    \/ ret.op = "SetStatus" /\ ret.arg \notin CanonicalStatuses
    \/ ret.op = "SetPriority" /\ ret.arg \notin Priorities
    \/ ret.op = "AddLabel" /\ \E i \in 1..Len(ret.before.Labels) : ret.before.Labels[i] = ret.arg
    \/ ret.op = "RemoveLabel" /\ \A i \in 1..Len(ret.before.Labels) : ret.before.Labels[i] # ret.arg

Mutators == {"SetStatus", "SetPriority", "SetAssignee", "AddLabel", "RemoveLabel", "SetMetadata"}

\* C18 as stated: a call that changes Status, Priority, Assignee, Labels or
\* Metadata sets UpdatedAt to the time of the call, a call that changes none of
\* them leaves UpdatedAt as it was, CreatedAt never changes and
\* CreatedAt <= UpdatedAt.
C18_UpdatedAtIffChanged ==
    /\ ret.op \in Mutators =>
           /\ Content(heldTask) # Content(ret.before) => heldTask.UpdatedAt = ret.at
           /\ Content(heldTask) = Content(ret.before)
                  => heldTask.UpdatedAt = ret.before.UpdatedAt
           /\ heldTask.CreatedAt = ret.before.CreatedAt
    /\ heldTask.present => heldTask.CreatedAt <= heldTask.UpdatedAt

\* C18 amended: a call that changes Status, Priority, Assignee, Labels or
\* Metadata sets UpdatedAt to the time of the call; a call the mutator skips
\* (invalid enumeration value, label already present, label absent) leaves
\* UpdatedAt as it was; every other call sets UpdatedAt to the time of the call
\* even when it stores the value the field already has; CreatedAt never
\* changes and CreatedAt <= UpdatedAt.
C18_UpdatedAtUnlessSkipped ==
    /\ ret.op \in Mutators =>
           /\ Content(heldTask) # Content(ret.before) => heldTask.UpdatedAt = ret.at
           /\ Skipped => heldTask.UpdatedAt = ret.before.UpdatedAt
           /\ ~Skipped => heldTask.UpdatedAt = ret.at
           /\ heldTask.CreatedAt = ret.before.CreatedAt
    /\ heldTask.present => heldTask.CreatedAt <= heldTask.UpdatedAt

\* C18 witness: the status the task already had was set again at a later time
C18_Witness ==
    /\ ret.op = "SetStatus"
    /\ ret.arg = ret.before.Status
    /\ ret.at > ret.before.UpdatedAt
    /\ Content(heldTask) = Content(ret.before)

\* the labels of a task as a set
LabelSet(t) == {t.Labels[i] : i \in 1..Len(t.Labels)}

\* C19: from NewTask on, Labels holds no string twice; AddLabel(l) leaves l
\* present and adds nothing else, and adding l again changes nothing;
\* RemoveLabel(l) leaves l absent and removes nothing else.
C19_LabelsAreASet ==
    /\ heldTask.present =>
           \A i, j \in 1..Len(heldTask.Labels) :
               heldTask.Labels[i] = heldTask.Labels[j] => i = j
    /\ ret.op = "AddLabel" =>
           /\ LabelSet(heldTask) = LabelSet(ret.before) \cup {ret.arg}
           /\ ret.arg \in LabelSet(ret.before) => heldTask = ret.before
    /\ ret.op = "RemoveLabel" =>
           LabelSet(heldTask) = LabelSet(ret.before) \ {ret.arg}

\* C19 witness: a label was added a second time while another one was there
C19_Witness ==
    /\ ret.op = "AddLabel"
    /\ ret.arg = "bug"
    /\ ret.before.Labels = <<"urgent", "bug">>

-----------------------------------------------------------------------------
(* C14, C15, C16: filters, payloads and the metadata of returned tasks     *)

\* the fields of a filter that are present, among the five the query builders
\* translate
PresentFields(f) ==
    IF f.nil THEN {}
    ELSE {k \in {"status", "assignee", "project", "labels", "query"} :
            CASE k = "status"   -> f.Status.present
              [] k = "assignee" -> f.Assignee # ""
              [] k = "project"  -> f.ProjectID # ""
              [] k = "labels"   -> f.Labels # <<>>
              [] k = "query"    -> f.Query # ""}

\* C14: the filter object Linear's ListTasks sends holds one constraint for
\* each of status, assignee, project, labels and free-text query present in
\* the TaskFilter, and a nil or empty TaskFilter sends an empty filter without
\* failing.
C14_LinearFilterComplete ==
    ret.op = "linear.ListTasks" =>
        LET sent == ret.wire[1].filter
            present == PresentFields(ret.task)
        IN  /\ Len(ret.wire) = 1
            /\ Cardinality(DOMAIN sent) = Cardinality(present)
            /\ "status" \in present => "state" \in DOMAIN sent
            /\ "assignee" \in present => "assignee" \in DOMAIN sent
            /\ present = {} => sent = EmptyMap /\ (ret.wire[1].ok => ret.err = NoErr)

\* the payloads an operation sent, in order
Payloads ==
    [i \in {j \in 1..Len(ret.wire) :
                ret.wire[j].call \in {"Issue.Create", "Issue.Update",
                                      "issueCreate", "issueUpdate"}} |->
        IF ret.wire[i].call \in {"Issue.Create", "Issue.Update"}
        THEN ret.wire[i].fields ELSE ret.wire[i].input]

\* C15: in the payload CreateTask and UpdateTask of either adapter build, the
\* project is there only if ProjectID is not empty, the assignee only if
\* Assignee is not nil, the labels only if there is a label, whatever the
\* other two are; an absent field never appears in the payload.
C15_OptionalFieldsOnlyIfSet ==
    ret.op \in {"jira.CreateTask", "jira.UpdateTask",
                "linear.CreateTask", "linear.UpdateTask"} =>
        \A i \in DOMAIN Payloads :
            LET sent == DOMAIN Payloads[i] IN
            /\ sent \cap {"project", "projectId"} # {} => ret.task.ProjectID # ""
            /\ sent \cap {"assignee", "assigneeId"} # {} => ret.task.Assignee.present
            /\ sent \cap {"labels", "labelIds"} # {} => Len(ret.task.Labels) > 0

\* C15 witness: Jira's CreateTask sent an issue with a project and labels and
\* without an assignee, the task having none
C15_Witness ==
    /\ ret.op = "jira.CreateTask"
    /\ ~ret.task.Assignee.present
    /\ ret.task.Labels = <<"bug", "urgent">>
    /\ Len(ret.wire) = 1
    /\ DOMAIN ret.wire[1].fields \cap {"project", "assignee", "labels"}
           = {"project", "labels"}
    /\ ret.wire[1].fields.labels = <<"bug", "urgent">>

\* the tasks an operation returned
ReturnedTasks ==
    IF ret.op \in {"jira.CreateTask", "jira.GetTask", "jira.UpdateTask",
                   "linear.CreateTask", "linear.GetTask", "linear.UpdateTask"}
    THEN IF ret.err = NoErr /\ ~ret.panic THEN {ret.value} ELSE {}
    ELSE IF ret.op \in {"jira.ListTasks", "linear.ListTasks"} /\ ret.err = NoErr
    THEN {ret.value.items[i] : i \in 1..Len(ret.value.items)}
    ELSE {}

\* the internal id of the issue with the human key given
InternalID(key) ==
    CASE key = IssueKey         -> IssueID
      [] key = "TEST-124"       -> "12346"
      [] key = LinearIdentifier -> LinearIssueID
      [] key = "ENG-2"          -> "lin-uuid-2"
      [] OTHER                  -> "no such key"

\* C16: every task CreateTask, GetTask, UpdateTask or ListTasks of an adapter
\* returns has the human key as its ID and a Metadata holding, under jira_id
\* or linear_id, the platform's internal id as a string; so UpdateTask given
\* that task does not refuse it as invalid_input and addresses the issue the
\* task was read from.
C16_ReturnedTaskReaddressable ==
    \A v \in ReturnedTasks :
        LET key == IF v.Platform = "jira" THEN "jira_id" ELSE "linear_id"
            rid == IF v.Platform = "jira" THEN jiraResolveID(v)
                   ELSE linearResolveID(v)
            id  == IF v.Platform = "jira" THEN [t |-> "string", id |-> rid.id]
                   ELSE rid.id
        IN  /\ v.present
            /\ v.ID \in {IssueKey, "TEST-124", LinearIdentifier, "ENG-2"}
            /\ key \in DOMAIN v.Metadata
            /\ IsString(v.Metadata[key])
            /\ v.Metadata[key].id = InternalID(v.ID)
            /\ rid.ok
            /\ id = IdValue(InternalID(v.ID))

-----------------------------------------------------------------------------
(* C21: the error-kind helpers                                             *)

\* C21: IsAuthenticationError, IsNotFoundError and IsRateLimitError return
\* true exactly when the error is a PlatformError whose Code is
\* authentication_failed, not_found and rate_limited respectively, whatever its
\* message, platform, task id and cause, and false for nil and for every
\* other error.
C21_KindHelpersByCode ==
    conv.fn \in DOMAIN KindHelpers =>
        conv.out = (conv.e.type = "PlatformError" /\ conv.e.Code = KindHelpers[conv.fn])

-----------------------------------------------------------------------------
(* Waiting on the platform: contexts and wire calls in flight              *)

\* a wire call as the code issues it: ctx is whether the operation hands its
\* context to the call
Issued(name, ctx) == [name |-> name, ctx |-> ctx]

\* the first wire call of each operation (Jira's SearchUsers issues none)
FirstCall ==
    [jira_CreateTask |-> Issued("Issue.CreateWithContext", TRUE),
     jira_GetTask |-> Issued("Issue.Get", FALSE),
     jira_UpdateTask |-> Issued("Issue.Get", FALSE),
     jira_DeleteTask |-> Issued("Issue.Delete", FALSE),
     jira_ListTasks |-> Issued("Issue.Search", FALSE),
     jira_ListProjects |-> Issued("Project.GetList", FALSE),
     jira_GetProject |-> Issued("Project.Get", FALSE),
     jira_GetCurrentUser |-> Issued("User.GetSelfWithContext", TRUE),
     jira_HealthCheck |-> Issued("User.GetSelfWithContext", TRUE),
     linear_CreateTask |-> Issued("graphql.Mutate", TRUE),
     linear_GetTask |-> Issued("graphql.Query", TRUE),
     linear_UpdateTask |-> Issued("graphql.Mutate", TRUE),
     linear_DeleteTask |-> Issued("graphql.Mutate", TRUE),
     linear_ListTasks |-> Issued("graphql.Query", TRUE),
     linear_ListProjects |-> Issued("graphql.Query", TRUE),
     linear_GetProject |-> Issued("graphql.Query", TRUE),
     linear_GetCurrentUser |-> Issued("graphql.Query", TRUE),
     linear_SearchUsers |-> Issued("graphql.Query", TRUE),
     linear_HealthCheck |-> Issued("graphql.Query", TRUE)]

Operations == DOMAIN FirstCall \cup {"jira_SearchUsers"}

\* the wire calls that can follow an answered call inside one operation: only
\* Jira's UpdateTask issues more than one
NextCalls(op, name) ==
    IF op # "jira_UpdateTask" THEN {}
    ELSE CASE name = "Issue.Get" ->
                  {Issued("Issue.GetTransitions", FALSE), Issued("Issue.Update", FALSE)}
           [] name = "Issue.GetTransitions" -> {Issued("Issue.DoTransition", FALSE)}
           [] name = "Issue.DoTransition" -> {Issued("Issue.Update", FALSE)}
           [] name = "Issue.Update" -> {Issued("Issue.Get again", FALSE)}
           [] OTHER -> {}

\* whether the operation can return right after this call was answered well:
\* the last call, no transition to the target status, an issue handed back by
\* Issue.Update
MayReturnAfter(op, name) ==
    NextCalls(op, name) = {} \/ name \in {"Issue.GetTransitions", "Issue.Update"}

Idle == [state |-> "idle"]

Waiting(op, call) == [state |-> "waiting", op |-> op, call |-> call]

Back(op, code) == [state |-> "returned", op |-> op, err |-> code]

\* an operation is called and issues its first wire call
Start(op) ==
    /\ pending = Idle
    /\ pending' = IF op \in DOMAIN FirstCall THEN Waiting(op, FirstCall[op])
                  ELSE Back(op, "nil")
    /\ UNCHANGED <<factories, jira, linear, ret, conv, heldTask, now, ctxDone, ui>>

\* the platform answers the call waited on
Answer(ok) ==
    /\ pending.state = "waiting"
    /\ IF ~ok
       THEN pending' = Back(pending.op, ErrPlatformAPI)
       ELSE \/ \E call \in NextCalls(pending.op, pending.call.name) :
                   pending' = Waiting(pending.op, call)
            \/ /\ MayReturnAfter(pending.op, pending.call.name)
               /\ pending' \in {Back(pending.op, "nil"), Back(pending.op, ErrPlatformAPI)}
               /\ pending.call.name # "Issue.GetTransitions" => pending'.err = "nil"
               /\ pending.call.name = "Issue.GetTransitions" => pending'.err # "nil"
    /\ UNCHANGED <<factories, jira, linear, ret, conv, heldTask, now, ctxDone, ui>>

\* the caller cancels the context, or its deadline passes
Cancel ==
    /\ ~ctxDone
    /\ ctxDone' = TRUE
    /\ UNCHANGED <<factories, jira, linear, ret, conv, heldTask, now, pending, ui>>

\* a call that was handed the context ends with the context's error, which the
\* operation wraps
Abort ==
    /\ pending.state = "waiting"
    /\ ctxDone
    /\ pending.call.ctx
    /\ pending' = Back(pending.op, ErrPlatformAPI)
    /\ UNCHANGED <<factories, jira, linear, ret, conv, heldTask, now, ctxDone, ui>>

\* the caller takes the result; its next call comes with a context of its own
Collect ==
    /\ pending.state = "returned"
    /\ pending' = Idle
    /\ ctxDone' = FALSE
    /\ UNCHANGED <<factories, jira, linear, ret, conv, heldTask, now, ui>>

NextContext ==
    \/ \E op \in Operations : Start(op)
    \/ \E ok \in BOOLEAN : Answer(ok)
    \/ Cancel
    \/ Abort
    \/ Collect

\* the platform may never answer; a call that holds the context does end once
\* the context is done
SpecContext == InitStatus /\ [][NextContext]_vars /\ WF_vars(Abort)

-----------------------------------------------------------------------------
(* C22: no operation waits past the end of its context                     *)

\* C22: every operation of both adapters hands its context to each wire call,
\* so an operation waiting on the platform when its context is done stops
\* waiting and returns (a PlatformError network_error or platform_api_error,
\* unless the answer came first); it does not stay blocked on the platform.
C22_ReturnsOnceContextDone ==
    (pending.state = "waiting" /\ ctxDone)
        ~> (pending.state = "returned" /\ pending.err \in {"nil", ErrNetworkError, ErrPlatformAPI})

-----------------------------------------------------------------------------
(* Fail fast: the wire calls of one operation                                *)

\* the names of the wire calls of a log, in the order they were issued
CallNames(w) == [i \in 1..Len(w) |-> w[i].call]

IsPrefix(s, t) == Len(s) <= Len(t) /\ \A i \in 1..Len(s) : s[i] = t[i]

\* jira: Client.UpdateTask, its wire calls when it runs the transition step
UpdateSteps ==
    <<"Issue.Get", "Issue.GetTransitions", "Issue.DoTransition", "Issue.Update",
      "Issue.Get">>

\* jira: Client.UpdateTask, its wire calls when the status already matches
UpdateStepsInPlace == <<"Issue.Get", "Issue.Update", "Issue.Get">>

\* an operation of an adapter has returned
OperationReturned == ret.op \notin {"none", "Registry.Register", "Registry.Create"}

\* a failed wire call is the last one of its operation, which returns an error
FailFast ==
    \A i \in 1..Len(ret.wire) :
        ~ret.wire[i].ok => (i = Len(ret.wire) /\ ret.err # NoErr)

\* no operation but Jira's UpdateTask (which reads the issue twice) issues
\* the same wire call twice
IssuedOnce ==
    ret.op # "jira.UpdateTask" =>
        \A i, j \in 1..Len(ret.wire) : ret.wire[i].call = ret.wire[j].call => i = j

\* C23 as stated: every operation stops at its first failed wire call and
\* returns an error, no wire call is issued twice, and the wire calls of
\* Jira's UpdateTask are a prefix of get issue, get transitions, do
\* transition, update fields, get issue
C23_FailFastPrefix ==
    OperationReturned =>
        /\ FailFast
        /\ IssuedOnce
        /\ ret.op = "jira.UpdateTask" => IsPrefix(CallNames(ret.wire), UpdateSteps)

\* C23 as the code has it: every operation stops at its first failed wire
\* call and returns an error, no wire call is issued twice, and the wire
\* calls of Jira's UpdateTask are a prefix of get issue, get transitions, do
\* transition, update fields, get issue when the issue's status maps to
\* another canonical status than task.Status, and a prefix of get issue,
\* update fields, get issue when it maps to task.Status
C23_FailFastSkippingTransition ==
    OperationReturned =>
        /\ FailFast
        /\ IssuedOnce
        /\ ret.op = "jira.UpdateTask" =>
               IsPrefix(CallNames(ret.wire),
                        IF ret.wire # <<>> /\ ret.wire[1].ok
                           /\ convertFromJiraStatus(ret.before.status.name) = ret.task.Status
                        THEN UpdateStepsInPlace ELSE UpdateSteps)

\* Jira's UpdateTask skipped the transition and its field update failed: it
\* returned the error without reading the issue again
C23_Witness ==
    /\ ret.op = "jira.UpdateTask"
    /\ CallNames(ret.wire) = <<"Issue.Get", "Issue.Update">>
    /\ ~ret.wire[2].ok
    /\ IsPlatformError(ret.err, ErrPlatformAPI)

-----------------------------------------------------------------------------
(* The registry: one factory per type, the last one registered              *)

\* C24: every Register(f) stores f under f.GetType(), replacing the factory
\* that type had, and changes the factory of no other type; nothing else
\* changes the map, which starts empty or with each adapter's own factory; so
\* the map holds per type the factory registered last, IsSupported(t) and
\* GetSupportedPlatforms answer by the types registered, and Create(t, ..)
\* calls the factory stored for t and no other
C24_LastRegistrationWins ==
    [][/\ ret'.op = "Registry.Register" =>
              LET f == ret'.factory
              IN /\ IsSupported(factories', f.type)
                 /\ factories'[f.type] = f
                 /\ GetSupportedPlatforms(factories')
                        = GetSupportedPlatforms(factories) \cup {f.type}
                 /\ \A t \in PlatformTypes \ {f.type} :
                        /\ IsSupported(factories', t) = IsSupported(factories, t)
                        /\ IsSupported(factories, t) => factories'[t] = factories[t]
       /\ ret'.op # "Registry.Register" => factories' = factories
       /\ ret'.op = "Registry.Create" =>
              /\ IsSupported(factories, ret'.platformType) = (ret'.calls # <<>>)
              /\ \A i \in 1..Len(ret'.calls) :
                     ret'.calls[i].factory = factories[ret'.platformType]
      ]_vars

\* the Jira factory was registered a second time, and Create("jira", ..) went
\* to the second one
C24_Witness ==
    /\ ret.op = "Registry.Create"
    /\ ret.platformType = "jira"
    /\ ret.before = ("jira" :> JiraFactoryAgain) @@ DefaultFactories
    /\ ret.calls # <<>>
    /\ ret.calls[1].factory = JiraFactoryAgain

-----------------------------------------------------------------------------
(* Constructing a client: NewClient of either adapter                        *)

\* the credentials NewClient is handed: none, one character, a blank, a word
CredentialStrings == {<<>>, <<"s">>, <<" ">>, <<"t","o","k">>}

\* the base URLs NewClient is handed
BaseURLStrings ==
    {<<>>, U.https, U.https_slash, U.ftp, U.escape, U.prefix_http, LinearAPIURL}

JiraConfigs ==
    [BaseURL : BaseURLStrings, Email : CredentialStrings, Token : CredentialStrings]

LinearConfigs == [Token : CredentialStrings, BaseURL : BaseURLStrings]

\* what a call of NewClient leaves with its caller
NewClientResult(platform, cfg, r) ==
    [fn |-> "NewClient", platform |-> platform, cfg |-> cfg,
     client |-> r.client, err |-> r.err]

\* a call of Jira's NewClient; it issues no wire call
JiraNewClient ==
    /\ \E cfg \in JiraConfigs : conv' = NewClientResult("jira", cfg, jiraNewClient(cfg))
    /\ UNCHANGED <<factories, jira, linear, ret, heldTask, now, pending, ctxDone, ui>>

\* a call of Linear's NewClient; it issues no wire call
LinearNewClient ==
    /\ \E cfg \in LinearConfigs :
           conv' = NewClientResult("linear", cfg, linearNewClient(cfg))
    /\ UNCHANGED <<factories, jira, linear, ret, heldTask, now, pending, ctxDone, ui>>

NextNewClient == JiraNewClient \/ LinearNewClient

SpecNewClient == InitStatus /\ [][NextNewClient]_vars

\* a required value of the Config is empty
MissingCredential(platform, cfg) ==
    IF platform = "jira"
    THEN cfg.BaseURL = <<>> \/ cfg.Email = <<>> \/ cfg.Token = <<>>
    ELSE cfg.Token = <<>>

\* NewClient refused the Config: a nil client and invalid_config of the adapter
Refused ==
    /\ conv.client = NilClient
    /\ conv.err.type = "PlatformError"
    /\ conv.err.Code = ErrInvalidConfig
    /\ conv.err.Platform = conv.platform

\* NewClient made a client that holds the base URL given, Linear's public URL
\* when none was given
Constructed ==
    /\ conv.err = NoErr
    /\ conv.client.kind = "client"
    /\ conv.client.type = conv.platform
    /\ conv.client.baseURL = IF conv.platform = "linear" /\ conv.cfg.BaseURL = <<>>
                             THEN LinearAPIURL ELSE conv.cfg.BaseURL

\* C25 as stated: NewClient with an empty required value (Jira: BaseURL,
\* Email or Token; Linear: Token) returns a nil client and invalid_config with
\* the adapter's type as Platform; with every required value present it
\* returns a client that holds the base URL given (Linear's public API URL
\* when none was given)
C25_RefusedIffMissing ==
    conv.fn = "NewClient" =>
        IF MissingCredential(conv.platform, conv.cfg) THEN Refused ELSE Constructed

\* C25 as the code has it: the same, but a Jira base URL that is present and
\* does not parse as a URL is refused as invalid_config too
C25_RefusedIffMissingOrUnparsed ==
    conv.fn = "NewClient" =>
        IF \/ MissingCredential(conv.platform, conv.cfg)
           \/ conv.platform = "jira" /\ ~urlParseOK(conv.cfg.BaseURL)
        THEN Refused ELSE Constructed

\* Jira's NewClient was handed a base URL and a token but an empty email
C25_Witness ==
    /\ conv.fn = "NewClient"
    /\ conv.platform = "jira"
    /\ conv.cfg = [BaseURL |-> U.https, Email |-> <<>>, Token |-> <<"t","o","k">>]
    /\ conv.client = NilClient
    /\ conv.err.Code = ErrInvalidConfig

-----------------------------------------------------------------------------
(* A status change requested through UpdateTask                              *)

\* C26: whenever UpdateTask(task) of either adapter succeeds for a task with
\* a canonical status, the task it returns has task.Status, and the issue on
\* the platform is in a state the adapter reads as task.Status
C26_StatusApplied ==
    (/\ ret.op \in {"jira.UpdateTask", "linear.UpdateTask"}
     /\ ret.err = NoErr
     /\ ret.task.Status \in CanonicalStatuses) =>
        /\ ret.value.Status = ret.task.Status
        /\ IF ret.op = "jira.UpdateTask"
           THEN ToTaskStatus(jira.status) = ret.task.Status
           ELSE convertLinearStatus(linear.stateType) = ret.task.Status

-----------------------------------------------------------------------------
(* Jira: the status as read and the status as compared on update             *)

\* C27: Jira's UpdateTask, handed a task whose Status is the one ToTask reads
\* from the issue (as GetTask and ListTasks return it), finds the same status
\* from the issue's status name, requests no transition, and never fails for
\* lack of one
C27_ReadAndUpdateAgree ==
    (/\ ret.op = "jira.UpdateTask"
     /\ ret.wire # <<>>
     /\ ret.wire[1].ok
     /\ ret.task.Status = ToTaskStatus(ret.before.status)) =>
        /\ convertFromJiraStatus(ret.before.status.name) = ret.task.Status
        /\ \A i \in 1..Len(ret.wire) :
               ret.wire[i].call \notin {"Issue.GetTransitions", "Issue.DoTransition"}
        /\ jira.status = ret.before.status
        /\ ret.err # NoErr => ~ret.wire[Len(ret.wire)].ok

-----------------------------------------------------------------------------
(* Jira: what a failed UpdateTask leaves on the platform                     *)

\* a wire call of the name given was answered without error
Succeeded(call) ==
    \E i \in 1..Len(ret.wire) : ret.wire[i].call = call /\ ret.wire[i].ok

-----------------------------------------------------------------------------
(* The interactive task list: model.Update                                   *)

viewList == "viewList"

viewDetail == "viewDetail"

viewDeleteConfirm == "viewDeleteConfirm"

\* a task of the list: two tasks of different platforms may share an ID
ListedTask(id, platform) == [present |-> TRUE, ID |-> id, Platform |-> platform]

\* the lists the view is started with and the lists a refresh brings
TaskLists ==
    LET a == ListedTask("T-1", "jira")
        b == ListedTask("T-2", "linear")
        c == ListedTask("T-1", "linear")
    IN {<<>>, <<a>>, <<a, b>>, <<b, c>>, <<a, b, c>>}

\* the model the view starts with; key and calls are the key the last Update
\* handled and the DeleteTask calls it made
newModel(tasks) ==
    [currentView |-> viewList, tasks |-> tasks, cursor |-> 0,
     selectedTask |-> NoTask, deleteTask |-> NoTask, deleteMessage |-> "",
     key |-> "", calls |-> <<>>, quit |-> FALSE]

\* table.SelectedRow: the ID column of the row under the cursor, none when
\* the cursor is on no row; the rows are those of m.tasks (refreshTable)
SelectedRow(m) ==
    IF m.cursor < Len(m.tasks) THEN [ok |-> TRUE, id |-> m.tasks[m.cursor + 1].ID]
    ELSE [ok |-> FALSE]

\* for _, task := range m.tasks { if task.ID == taskID {...} }: the first hit
FindTask(tasks, id) ==
    LET hits == SelectSeq(tasks, LAMBDA t : t.ID = id)
    IN IF hits = <<>> THEN NoTask ELSE hits[1]

\* the task under the cursor, NoTask when there is none
TaskUnderCursor(m) ==
    LET row == SelectedRow(m)
    IN IF row.ok THEN FindTask(m.tasks, row.id) ELSE NoTask

\* m.tasks without its first task of the ID given
RemoveFirst(tasks, id) ==
    LET hits == {i \in 1..Len(tasks) : tasks[i].ID = id}
        i == CHOOSE k \in hits : \A j \in hits : k <= j
    IN IF hits = {} THEN tasks
       ELSE SubSeq(tasks, 1, i - 1) \o SubSeq(tasks, i + 1, Len(tasks))

\* what happens to a confirmed delete: the task's platform is not enabled, no
\* client can be made, DeleteTask fails, DeleteTask succeeds
DeleteOutcomes == {"disabled", "noclient", "failed", "deleted"}

\* model.confirmDelete that takes the task off the list before it calls
\* DeleteTask
confirmDelete_RemoveFirst(m, outcome) ==
    IF m.deleteTask = NoTask THEN m
    ELSE IF outcome = "disabled"
    THEN [m EXCEPT !.deleteMessage = "Platform not found or not enabled"]
    ELSE IF outcome = "noclient"
    THEN [m EXCEPT !.deleteMessage = "Failed to create client"]
    ELSE IF outcome = "failed"
    THEN [m EXCEPT !.deleteMessage = "Failed to delete task",
                   !.tasks = RemoveFirst(m.tasks, m.deleteTask.ID),
                   !.calls = <<[id |-> m.deleteTask.ID, ok |-> FALSE]>>]
    ELSE [m EXCEPT !.tasks = RemoveFirst(m.tasks, m.deleteTask.ID),
                   !.selectedTask =
                       IF m.selectedTask # NoTask /\ m.selectedTask.ID = m.deleteTask.ID
                       THEN NoTask ELSE m.selectedTask,
                   !.deleteTask = NoTask, !.deleteMessage = "",
                   !.currentView = viewList,
                   !.calls = <<[id |-> m.deleteTask.ID, ok |-> TRUE]>>]

\* model.confirmDelete
confirmDelete(m, outcome) ==
    IF m.deleteTask = NoTask THEN m
    ELSE IF outcome = "disabled"
    THEN [m EXCEPT !.deleteMessage = "Platform not found or not enabled"]
    ELSE IF outcome = "noclient"
    THEN [m EXCEPT !.deleteMessage = "Failed to create client"]
    ELSE IF outcome = "failed"
    THEN [m EXCEPT !.deleteMessage = "Failed to delete task",
                   !.calls = <<[id |-> m.deleteTask.ID, ok |-> FALSE]>>]
    ELSE [m EXCEPT !.tasks = RemoveFirst(m.tasks, m.deleteTask.ID),
                   !.selectedTask =
                       IF m.selectedTask # NoTask /\ m.selectedTask.ID = m.deleteTask.ID
                       THEN NoTask ELSE m.selectedTask,
                   !.deleteTask = NoTask, !.deleteMessage = "",
                   !.currentView = viewList,
                   !.calls = <<[id |-> m.deleteTask.ID, ok |-> TRUE]>>]

\* the view is running and takes a key
Running == ui.currentView # "none" /\ ~ui.quit

\* the model as Update finds it when the key arrives
Taking(key) == [ui EXCEPT !.key = key, !.calls = <<>>]

Others == <<factories, jira, linear, ret, conv, heldTask, now, pending, ctxDone>>

\* case "esc"
KeyEsc ==
    /\ Running
    /\ LET m == Taking("esc")
       IN ui' = IF m.currentView = viewDetail THEN [m EXCEPT !.currentView = viewList]
                ELSE IF m.currentView = viewDeleteConfirm
                THEN [m EXCEPT !.currentView = viewList, !.deleteTask = NoTask,
                               !.deleteMessage = ""]
                ELSE m
    /\ UNCHANGED Others

\* case "q", "ctrl+c"
KeyQuit ==
    /\ Running
    /\ ui' = [Taking("q") EXCEPT !.quit = TRUE]
    /\ UNCHANGED Others

\* case "enter"
KeyEnter ==
    /\ Running
    /\ LET m == Taking("enter")
           task == TaskUnderCursor(m)
       IN ui' = IF m.currentView = viewList /\ task # NoTask
                THEN [m EXCEPT !.selectedTask = task, !.currentView = viewDetail]
                ELSE m
    /\ UNCHANGED Others

\* case "d"; with no task under the cursor the key goes on to the table,
\* which moves the cursor down by half a page
KeyD ==
    /\ Running
    /\ LET m == Taking("d")
           task == TaskUnderCursor(m)
       IN IF m.currentView = viewList /\ task # NoTask
          THEN ui' = [m EXCEPT !.deleteTask = task, !.currentView = viewDeleteConfirm]
          ELSE IF m.currentView = viewList
          THEN \E c \in {m.cursor} \cup {k \in 0..(Len(m.tasks) - 1) : k >= m.cursor} :
                   ui' = [m EXCEPT !.cursor = c]
          ELSE IF m.currentView = viewDetail /\ m.selectedTask # NoTask
          THEN ui' = [m EXCEPT !.deleteTask = m.selectedTask,
                               !.currentView = viewDeleteConfirm]
          ELSE ui' = m
    /\ UNCHANGED Others

\* case "y"
KeyY ==
    /\ Running
    /\ LET m == Taking("y")
       IN IF m.currentView = viewDeleteConfirm /\ m.deleteTask # NoTask
          THEN \E outcome \in DeleteOutcomes : ui' = confirmDelete(m, outcome)
          ELSE ui' = m
    /\ UNCHANGED Others

\* case "n"
KeyN ==
    /\ Running
    /\ LET m == Taking("n")
       IN ui' = IF m.currentView = viewDeleteConfirm
                THEN [m EXCEPT !.currentView = viewList, !.deleteTask = NoTask,
                               !.deleteMessage = ""]
                ELSE m
    /\ UNCHANGED Others

\* case "1", "2", "3", "4": updateSelectedTaskStatus and updateTaskStatus put
\* the task UpdateTask returns in the place of the task of the same ID, or
\* leave the list as it is; ID and Platform of every task stay
KeyStatus ==
    /\ Running
    /\ \E k \in {"1", "2", "3", "4"} : ui' = Taking(k)
    /\ UNCHANGED Others

\* case "r": refreshTasks in the list view
KeyR ==
    /\ Running
    /\ LET m == Taking("r")
       IN IF m.currentView = viewList
          THEN \E tasks \in TaskLists : ui' = [m EXCEPT !.tasks = tasks]
          ELSE ui' = m
    /\ UNCHANGED Others

\* any other key: in the list view the table moves its cursor up or down
KeyMove ==
    /\ Running
    /\ \E k \in {"up", "down"} :
           LET m == Taking(k)
               last == IF m.tasks = <<>> THEN 0 ELSE Len(m.tasks) - 1
               to == IF k = "up" THEN m.cursor - 1 ELSE m.cursor + 1
           IN ui' = IF m.currentView = viewList
                    THEN [m EXCEPT !.cursor = IF to < 0 THEN 0
                                              ELSE IF to > last THEN last ELSE to]
                    ELSE m
    /\ UNCHANGED Others

InitView ==
    /\ factories = EmptyMap
    /\ jira = Unconfigured
    /\ linear = Unconfigured
    /\ ret = NoRet
    /\ conv = NoConv
    /\ heldTask = [present |-> FALSE]
    /\ now = 0
    /\ pending = [state |-> "idle"]
    /\ ctxDone = FALSE
    /\ ui \in {newModel(tasks) : tasks \in TaskLists}

NextView ==
    \/ KeyEsc
    \/ KeyQuit
    \/ KeyEnter
    \/ KeyD
    \/ KeyY
    \/ KeyN
    \/ KeyStatus
    \/ KeyR
    \/ KeyMove

SpecView == InitView /\ [][NextView]_vars

\* C29: in every state of the view, the confirm view has a task to delete;
\* in every step, DeleteTask is called only by the key "y" taken in the
\* confirm view with deleteTask set, once, and for that task's ID; "n" and
\* "esc" taken in the confirm view lead to the list view, clear deleteTask
\* and call nothing; a DeleteTask that failed leaves the list of tasks as it
\* was and the confirm view open
C29_DeleteOnlyConfirmed ==
    /\ [](ui.currentView = viewDeleteConfirm => ui.deleteTask # NoTask)
    /\ [][/\ ui'.calls # <<>> =>
                 /\ ui'.key = "y"
                 /\ ui.currentView = viewDeleteConfirm
                 /\ ui.deleteTask # NoTask
                 /\ Len(ui'.calls) = 1
                 /\ ui'.calls[1].id = ui.deleteTask.ID
          /\ (ui.currentView = viewDeleteConfirm /\ ui'.key \in {"n", "esc"}) =>
                 /\ ui'.currentView = viewList
                 /\ ui'.deleteTask = NoTask
                 /\ ui'.calls = <<>>
          /\ (ui'.calls # <<>> /\ ~ui'.calls[1].ok) =>
                 /\ ui'.tasks = ui.tasks
                 /\ ui'.currentView = viewDeleteConfirm
                 /\ ui'.deleteTask = ui.deleteTask
         ]_vars

\* "y" was taken in the confirm view opened from the detail view of the
\* Linear task T-1, and DeleteTask failed
C29_Witness ==
    /\ ui.currentView = viewDeleteConfirm
    /\ ui.key = "y"
    /\ ui.calls = <<[id |-> "T-1", ok |-> FALSE]>>
    /\ ui.deleteTask = ListedTask("T-1", "linear")
    /\ ui.selectedTask = ui.deleteTask
    /\ Len(ui.tasks) = 2

-----------------------------------------------------------------------------
(* task list: --offset and --limit                                           *)

\* the largest number of matching tasks on the platform, and the largest
\* --offset and --limit
MaxListed == 4

\* MaxResults of the Jira search and first of the Linear query when the
\* filter has no limit
DefaultPageSize == 50

Min(a, b) == IF a < b THEN a ELSE b

\* the platform's matching tasks, by position, after the first `from`, at
\* most `count` of them
Page(from, count, total) ==
    [i \in 1..(Min(from + count, total) - Min(from, total)) |-> from + i]

\* createTaskFilter, its Limit and Offset
createTaskFilter(listLimit, listOffset) == [Limit |-> listLimit, Offset |-> listOffset]

\* jira: Client.ListTasks, the search options
jiraSearchOptions(filter) ==
    [StartAt |-> IF filter.Offset > 0 THEN filter.Offset ELSE 0,
     MaxResults |-> IF filter.Limit > 0 THEN filter.Limit ELSE DefaultPageSize]

\* jira: Client.ListTasks against a platform with `total` matching tasks
jiraListPage(total, filter) ==
    LET options == jiraSearchOptions(filter)
    IN Page(options.StartAt, options.MaxResults, total)

\* linear: Client.ListTasks against a platform with `total` matching tasks:
\* first is the limit, after stays nil whatever the offset
linearListPage(total, filter) ==
    Page(0, IF filter.Limit > 0 THEN filter.Limit ELSE DefaultPageSize, total)

\* runList, "Apply pagination": the tasks it prints
paginate(allTasks, listLimit, listOffset) ==
    LET start == listOffset
        end == Min(start + listLimit, Len(allTasks))
    IN IF Len(allTasks) = 0 \/ start >= Len(allTasks) THEN <<>>
       ELSE SubSeq(allTasks, start + 1, end)

\* runList with one enabled platform
runList(platform, total, listLimit, listOffset) ==
    LET filter == createTaskFilter(listLimit, listOffset)
        allTasks == IF platform = "jira" THEN jiraListPage(total, filter)
                    ELSE linearListPage(total, filter)
    IN paginate(allTasks, listLimit, listOffset)

RunList(platform) ==
    /\ \E total \in 0..MaxListed, listLimit \in 0..MaxListed, listOffset \in 0..MaxListed :
           conv' = [fn |-> "runList", platform |-> platform, total |-> total,
                    limit |-> listLimit, offset |-> listOffset,
                    shown |-> runList(platform, total, listLimit, listOffset)]
    /\ UNCHANGED <<factories, jira, linear, ret, heldTask, now, pending, ctxDone, ui>>

NextList == \E platform \in {"jira", "linear"} : RunList(platform)

SpecList == InitStatus /\ [][NextList]_vars

\* C30: task list with --offset k and --limit n against one platform prints
\* the platform's matching tasks at the positions after the first k, at most
\* n of them, and none when k is beyond the last
C30_ShowsOffsetToLimit ==
    conv.fn = "runList" => conv.shown = Page(conv.offset, conv.limit, conv.total)

=============================================================================
